---- MODULE Spec2Model ----
(***************************************************************************)
(* A state-machine model of firestack's flow engine: the expiring keyed    *)
(* counter (intra/core/expiringmap.go), the stall policy (intra/common.go),*)
(* the proxy registry (intra/ipn/proxies.go), the resolver's query paths   *)
(* (intra/dnsx), and the TCP and UDP flow handlers (intra).                *)
(* Every component has its own specification over the shared variables;    *)
(* a specification leaves the variables of the other components alone.     *)
(***************************************************************************)
EXTENDS Integers, Sequences, FiniteSets, TLC

VARIABLES
    \* ---- core.ExpMap
    m,          \* ExpMap.m: key -> [expiry, hits]; absent keys are not in the domain
    lastreap,   \* ExpMap.lastreap
    reapers,    \* number of `go m.reaper()` goroutines spawned and not yet run
    now,        \* the wall clock, in seconds
    ev,         \* the last ExpMap call: what it was given, saw and returned
    gets,       \* Get calls per key since the last Set of that key
    base,       \* hits of the entry right after the last Set of that key
    \* ---- repeated blocked attempts of one flow (stall)
    attempts,   \* blocked attempts made so far
    secs,       \* the stall computed by the latest attempt
    wake,       \* the instant the latest attempt's time.Sleep ends
    \* ---- ipn.proxifier
    p,          \* proxifier.p: proxy id -> proxy (a handle)
    made,       \* proxies constructed so far (handles are 1..made)
    stopping,   \* proxies with a `go p.Stop()` spawned and not yet run
    stopped,    \* proxies whose Stop has run
    refreshed,  \* the ids the last RefreshProxies returned, in csv order
    refOk,      \* the ids whose Refresh returned nil in the last RefreshProxies
    \* ---- dnsx.resolver
    transports, \* resolver.transports: the ids that have a transport registered
    pool,       \* resolver.pool: the ids that have a oneTransport registered
    adding,     \* Add calls that have run r.Remove(id) and not yet taken the lock
    onresp,     \* queries whose `go r.listener.OnResponse(summary)` has not run yet
    heard,      \* the last OnResponse: the summary the listener got, and the lists blockQ matched
    pref,       \* resolver.transports[Preferred]: the transport registered, "" when none is
    gwt,        \* the transport the gateway (resolver.transports[Alg]) sits in front of
    calls,      \* Forward and forwardQuery calls that have returned
    replies,    \* OnResponse calls the listener has received
    \* ---- tcpHandler
    tcp,        \* per TCP flow: where Proxy stands, the gate's decision, the stack-side conn, the summary
    tstatus,    \* tcpHandler.status
    \* ---- udpHandler
    udp,        \* per UDP flow: where OnNewConn stands, the gate's decision, the stack-side
                \* conn, the tracker, the pump, the bytes written, the summaries received
    udpConns,   \* udpHandler.udpConns: the flows that have a NAT entry
    unotifs,    \* the `go h.sendNotif(...)` goroutines spawned and not yet run
    ustatus,    \* udpHandler.status
    \* ---- one TCP splice (tcpHandler.forward)
    sp,         \* the two copies, the open halves of the two conns, the byte counts
    \* ---- undoAlg
    fam,        \* the dialers' active families, the ALG's real ips, and undoAlg's realips
    \* ---- one query taken through both paths of the resolver
    \* ---- one flow taken through the policy gate (onFlow)
    gate,       \* the block mode, what the listener would answer, and what onFlow did
    \* ---- the process and its pump and callback goroutines
    proc,       \* whether the process runs, and where each goroutine stands
    \* ---- udpHandler.udpConns under calls of Connect, ReceiveTo and Close in any order
    natt,       \* the table's entries, the conn of each tracker made, the open upstreams,
                \* and what the last ReceiveTo found
    fw,         \* one forward of common.go: the two copies, the channel, the summary
    mh,         \* a multihost.MH: its names and addrs, and the lists as they were before the last call
    rl,         \* the resolver's lock, its system-DNS list and registry, and the callers of AddSystemDNS and RemoveSystemDNS
    tun,        \* the tunnel: its closed flags and sync.Once, how often the teardown ran, and the callers of Disconnect
    gt,         \* a GTCPConn: its conn and endpoint, the endpoints created and requests completed, and the callers of makeEndpoint, Redo and StatefulTeardown
    qc          \* what the query meets (listener, blocklists, transport, DNS64, writer),
                \* and what Forward and forwardQuery made of it

expVars == <<m, lastreap, reapers, now, ev, gets, base>>
stallVars == <<attempts, secs, wake>>
pxVars == <<p, made, stopping, stopped, refreshed, refOk>>
regVars == <<transports, pool, adding, pref, gwt>>
dnsVars == <<regVars, onresp, heard, calls, replies>>
tcpVars == <<tcp, tstatus>>
udpVars == <<udp, udpConns, unotifs, ustatus>>
spVars == <<sp>>
famVars == <<fam>>
qcVars == <<qc>>
gateVars == <<gate>>
procVars == <<proc>>
natVars == <<natt>>
fwVars == <<fw>>
mhVars == <<mh>>
rlVars == <<rl>>
tunVars == <<tun>>
gtVars == <<gt>>

\* what the actions of each component leave alone
expRest == <<pxVars, dnsVars, tcpVars, udpVars, spVars, famVars, qcVars, gateVars, procVars, natVars, fwVars, mhVars, rlVars, tunVars, gtVars>>
pxRest == <<expVars, stallVars, dnsVars, tcpVars, udpVars, spVars, famVars, qcVars, gateVars, procVars, natVars, fwVars, mhVars, rlVars, tunVars, gtVars>>
dnsRest == <<expVars, stallVars, pxVars, tcpVars, udpVars, spVars, famVars, qcVars, gateVars, procVars, natVars, fwVars, mhVars, rlVars, tunVars, gtVars>>
tcpRest == <<stallVars, pxVars, dnsVars, udpVars, spVars, famVars, qcVars, gateVars, procVars, natVars, fwVars, mhVars, rlVars, tunVars, gtVars>>
flowRest == <<stallVars, pxVars, tcpVars, spVars, famVars, qcVars, gateVars, procVars, natVars, fwVars, mhVars, rlVars, tunVars, gtVars>>
udpRest == <<flowRest, dnsVars>>
spRest == <<expVars, stallVars, pxVars, dnsVars, udpVars, famVars, qcVars, gateVars, procVars, natVars, fwVars, mhVars, rlVars, tunVars, gtVars>>
famRest == <<expVars, stallVars, pxVars, dnsVars, tcpVars, udpVars, spVars, qcVars, gateVars, procVars, natVars, fwVars, mhVars, rlVars, tunVars, gtVars>>
qcRest == <<expVars, stallVars, pxVars, tcpVars, udpVars, spVars, famVars, gateVars, procVars, natVars, fwVars, mhVars, rlVars, tunVars, gtVars>>
gateRest == <<expVars, stallVars, pxVars, dnsVars, tcpVars, udpVars, spVars, famVars, qcVars, procVars, natVars, fwVars, mhVars, rlVars, tunVars, gtVars>>
procRest == <<expVars, stallVars, pxVars, dnsVars, tcpVars, udpVars, spVars, famVars, qcVars, gateVars, natVars, fwVars, mhVars, rlVars, tunVars, gtVars>>
natRest == <<expVars, stallVars, pxVars, dnsVars, tcpVars, udpVars, spVars, famVars, qcVars, gateVars, procVars, fwVars, mhVars, rlVars, tunVars, gtVars>>
fwRest == <<expVars, stallVars, pxVars, dnsVars, tcpVars, udpVars, spVars, famVars, qcVars, gateVars, procVars, natVars, mhVars, rlVars, tunVars, gtVars>>
mhRest == <<expVars, stallVars, pxVars, dnsVars, tcpVars, udpVars, spVars, famVars, qcVars, gateVars, procVars, natVars, fwVars, rlVars, tunVars, gtVars>>
rlRest == <<expVars, stallVars, pxVars, dnsVars, tcpVars, udpVars, spVars, famVars, qcVars, gateVars, procVars, natVars, fwVars, mhVars, tunVars, gtVars>>
tunRest == <<expVars, stallVars, pxVars, dnsVars, tcpVars, udpVars, spVars, famVars, qcVars, gateVars, procVars, natVars, fwVars, mhVars, rlVars, gtVars>>
gtRest == <<expVars, stallVars, pxVars, dnsVars, tcpVars, udpVars, spVars, famVars, qcVars, gateVars, procVars, natVars, fwVars, mhVars, rlVars, tunVars>>
vars == <<expVars, stallVars, pxVars, dnsVars, tcpVars, udpVars, spVars, famVars, qcVars, gateVars, procVars, natVars, fwVars, mhVars, rlVars, tunVars, gtVars>>

(***************************************************************************)
(* core.ExpMap                                                             *)
(***************************************************************************)
Keys == {"k1", "k2"}

\* var ( reapthreshold = 5 * time.Minute; maxreapiter = 100; sizethreshold = 500 )
reapthreshold == 300
maxreapiter == 100
sizethreshold == 500

\* bounds of the model
MaxTime == 3       \* the clock of SpecExpMap stops advancing here
MaxDelta == 2      \* the largest lifetime (seconds) handed to Set in SpecExpMap
MaxHits == 2       \* Get is not called on a live entry with this many hits

EmptyMap == [k \in {} |-> 0]

Put(mm, k, v) == [x \in (DOMAIN mm) \cup {k} |-> IF x = k THEN v ELSE mm[x]]

Drop(mm, ks) == [x \in (DOMAIN mm) \ ks |-> mm[x]]

\* type val struct { expiry time.Time; hits uint32 }
\* (hits stays far below 2^32 here: no call sequence within the bounds wraps it)
val(e, h) == [expiry |-> e, hits |-> h]

\* time.Time.After: strictly later
After(a, b) == a > b

\* A plausible slip in Get: the expiry test made with "not before".
GetOpNotBefore(mm, k, n) ==
    IF k \notin DOMAIN mm THEN Put(mm, k, val(n, 0))
    ELSE IF n >= mm[k].expiry THEN Put(mm, k, val(mm[k].expiry, 0))
    ELSE Put(mm, k, val(mm[k].expiry, mm[k].hits + 1))

\* A plausible slip in Get: the expiry is not looked at, every call adds a hit.
GetOpNoReset(mm, k, n) ==
    IF k \notin DOMAIN mm THEN Put(mm, k, val(n, 0))
    ELSE Put(mm, k, val(mm[k].expiry, mm[k].hits + 1))

\* ExpMap.Get: the map after Get(key) called at instant n
GetOp(mm, k, n) ==
    IF k \notin DOMAIN mm THEN Put(mm, k, val(n, 0))
    ELSE IF After(n, mm[k].expiry) THEN Put(mm, k, val(mm[k].expiry, 0))
    ELSE Put(mm, k, val(mm[k].expiry, mm[k].hits + 1))

\* ExpMap.Get returns v.hits
GetRet(mm, k, n) == GetOp(mm, k, n)[k].hits

\* A plausible slip in Set: the expiry kept at max(current, now+d), hits kept.
SetOpMax(mm, k, n, d) ==
    IF k \in DOMAIN mm
    THEN IF After(n + d, mm[k].expiry) THEN Put(mm, k, val(n + d, mm[k].hits)) ELSE mm
    ELSE Put(mm, k, val(n + d, 0))

\* ExpMap.Set: the map after Set(key, d) called at instant n
SetOp(mm, k, n, d) ==
    IF k \in DOMAIN mm /\ After(n + d, mm[k].expiry)
    THEN Put(mm, k, val(n + d, mm[k].hits))
    ELSE Put(mm, k, val(n + d, 0))

\* ExpMap.Set returns v.hits
SetRet(mm, k, n, d) == SetOp(mm, k, n, d)[k].hits

NoEv == [op |-> "none", key |-> "k1", d |-> 0, at |-> 0, ret |-> 0, pre |-> EmptyMap]

Zero == [k \in Keys |-> 0]

ExpInit ==
    /\ m = EmptyMap
    /\ lastreap = 0
    /\ reapers = 0
    /\ now = 0
    /\ ev = NoEv
    /\ gets = Zero
    /\ base = Zero

StallInit ==
    /\ attempts = 0
    /\ secs = 0
    /\ wake = 0

\* const ( Block = "Block"; Base = "Base"; Exit = "Exit"; OrbotS5 = "OrbotSocks5" )
Block == "Block"
Base == "Base"
Exit == "Exit"
OrbotS5 == "OrbotSocks5"

ProxyIds == {Block, Base, Exit, OrbotS5}

EmptyProxies == [id \in {} |-> 0]

\* proxifier.add, on the map: px.p[p.ID()] = p
addMap(pp, id, h) == Put(pp, id, h)

\* proxifier.add, on the stops spawned: the proxy it replaces, if another one
addStops(pp, id, h) == IF id \in DOMAIN pp /\ pp[id] # h THEN {pp[id]} ELSE {}

\* NewProxifier: add(NewExitProxy), add(NewBaseProxy), add(NewGroundProxy);
\* the ground proxy is the one with id Block
NewProxifier == addMap(addMap(addMap(EmptyProxies, Exit, 1), Base, 2), Block, 3)

PxInit ==
    /\ p = NewProxifier
    /\ made = 3
    /\ stopping = {}
    /\ stopped = {}
    /\ refreshed = <<>>
    /\ refOk = {}

\* const ( System; Default; Preferred; BlockFree; BlockAll; Alg ): the ids used here
Default == "Default"
Preferred == "Preferred"
Alg == "Alg"
System == "System"

\* the ids the embedder's OnQuery answers with
TransportIds == {Default, Preferred, Alg}

\* determineTransports found nothing (a nil Transport, a nil *oneTransport)
NoTransport == ""

\* NewResolver: r.Add(defaultdns); r.Add(NewDNSGateway(defaultdns, r))
NewResolver == {Default, Alg}

\* transports as objects: the default transport NewResolver is given, and
\* the transports a client registers under Preferred
defaultdns == "defaultdns"
Handles == {"t1", "t2"}

NoCall == [bl |-> "", summary |-> [QName |-> "", Status |-> "", ID |-> "", Blocklists |-> ""]]

DnsInit ==
    /\ transports = NewResolver
    /\ pool = NewResolver
    /\ adding = {}
    /\ onresp = <<>>
    /\ heard = NoCall
    /\ pref = ""
    /\ gwt = defaultdns
    /\ calls = 0
    /\ replies = 0

\* the TCP flows the stack hands to Proxy; both are one uid's flows to one
\* target, so both stall under the fwtracker key "k1"
TcpFlows == {"t1", "t2"}

\* const ( TCPOK = iota; TCPEND )
TCPOK == "TCPOK"
TCPEND == "TCPEND"

\* a flow Proxy has not been called for: the stack holds its SYN
NewTcpFlow ==
    [pc |-> "new", pid |-> "", cid |-> "", secs |-> 0, at |-> 0,
     g |-> "syn", gAt |-> 0, looked |-> FALSE, dialed |-> FALSE,
     err |-> "", notif |-> "none", up |-> "none"]

\* NewTCPHandler
TcpInit ==
    /\ tcp = [f \in TcpFlows |-> NewTcpFlow]
    /\ tstatus = TCPOK

\* the UDP flows the stack hands to OnNewConn; a flow's uid and target make
\* the fwtracker key "k1"
UdpFlows == {"u1"}

\* const ( UDPOK = iota; UDPEND )
UDPOK == "UDPOK"
UDPEND == "UDPEND"

\* makeTracker(cid, pid, uid, conn): msg starts as NoErr
\* (nat.ip is nil until Connect sets it)
makeTracker(cid) ==
    [id |-> cid, msg |-> "no error", upload |-> 0, download |-> 0, errcount |-> 0, ip |-> ""]

\* the destination of a flow as the stack sees it (the address the ALG handed
\* to the app), and the address the ALG maps it to
AlgIp == "alg-ip"
RealIp == "real-ip"

\* a flow OnNewConn has not been called for
NewUdpFlow ==
    [pc |-> "new", pid |-> "", cid |-> "", dns |-> FALSE, secs |-> 0, at |-> 0,
     g |-> "new", gAt |-> 0, looked |-> FALSE, dialed |-> FALSE, natted |-> FALSE,
     nat |-> makeTracker(""), pump |-> "none", up |-> "none",
     egress |-> 0, ingress |-> 0, sentUp |-> 0, sentDown |-> 0, resolved |-> 0,
     closed |-> 0, Tx |-> 0, Rx |-> 0, from |-> "",
     dst |-> AlgIp, target |-> AlgIp, inFrom |-> "", fwd |-> <<>>, ans |-> <<>>,
     reclosed |-> FALSE, csum |-> 0, rdErrs |-> 0, why |-> "", egFailed |-> FALSE,
     inOk |-> "", egOk |-> "", lateNat |-> FALSE]

\* NewUDPHandler
UdpInit ==
    /\ udp = [f \in UdpFlows |-> NewUdpFlow]
    /\ udpConns = {}
    /\ unotifs = <<>>
    /\ ustatus = UDPOK

\* a splice tcpHandler.forward has not been called for: both conns open in
\* both directions
NewSplice ==
    [pc |-> "open", up |-> "none", down |-> "none",
     lr |-> TRUE, lw |-> TRUE, rr |-> TRUE, rw |-> TRUE,
     Tx |-> 0, Rx |-> 0, uerr |-> "", derr |-> "", notif |-> "none"]

SpInit == sp = NewSplice

\* undoAlg has not been called: x is gw.X(algip) as a list of tokens (the
\* empty string is the list of one empty token), realips what undoAlg returns
NewFam(use4, use6, gw, x) ==
    [use4 |-> use4, use6 |-> use6, gw |-> gw, x |-> x, called |-> FALSE, realips |-> <<"">>]

FamInit == fam = NewFam(TRUE, TRUE, TRUE, <<"">>)

\* no query has been taken through the two paths
QcInit == qc = [in |-> <<>>, udone |-> FALSE, tdone |-> FALSE, u |-> <<>>, t |-> <<>>]

\* settings.BlockModeNone, BlockModeFilter, BlockModeSink, BlockModeFilterProc
BlockModeNone == "BlockModeNone"
BlockModeFilter == "BlockModeFilter"
BlockModeSink == "BlockModeSink"
BlockModeFilterProc == "BlockModeFilterProc"
BlockModes == {BlockModeNone, BlockModeFilter, BlockModeSink, BlockModeFilterProc}

\* a flow at the gate: the handler (proto), h.tunMode.BlockMode, whether the
\* source address parses, the uid /proc knows, the Mark (PID, CID) the listener
\* would return (lnil: it returns a nil *Mark); then the number of listener.Flow
\* calls made, the Mark decided, and whether onFlow faulted instead of returning
NewGate(proto, mode, srcok, uid, pid, cid) ==
    [proto |-> proto, mode |-> mode, srcok |-> srcok, procuid |-> uid, lpid |-> pid, lcid |-> cid,
     lnil |-> FALSE, flows |-> 0, askeduid |-> -1, done |-> FALSE, fault |-> FALSE,
     PID |-> "", CID |-> ""]

GateInit == gate = NewGate("", BlockModeNone, TRUE, -1, "", "")

\* the goroutines: the TCP copy in each direction and its summary, the UDP
\* ingress pump and its summary, the resolver's deferred OnResponse
Tasks == {"upload", "download", "sendNotif", "fetchUDPInput", "udp.sendNotif", "OnResponse"}

ProcInit == proc = [up |-> TRUE, task |-> [t \in Tasks |-> "idle"]]

\* make(map[core.UDPConn]*tracker): no entry, no tracker made, nothing looked up
NatInit == natt = [tbl |-> <<>>, of |-> <<>>, open |-> {}, got |-> 0]

\* forward has not been called
FwInit == fw = [pc |-> "idle", up |-> "idle", down |-> "idle", ubytes |-> 0, dbytes |-> 0, uerr |-> "", derr |-> "", ioch |-> <<>>, smm |-> [Tx |-> 0, Rx |-> 0, uerr |-> "", derr |-> ""]]

\* multihost.New: no names, no addrs
MhInit == mh = [v |-> "part_002", names |-> <<>>, addrs |-> <<>>, lits |-> {}, pre |-> [names |-> <<>>, addrs |-> <<>>, lits |-> {}], op |-> "New", ops |-> 0]

\* nobody holds r.RWMutex, nothing is registered, no call is under way
RlInit == rl = [holder |-> "", systemdns |-> 0, reg |-> {}, calls |-> 0, g |-> [x \in {"g1", "g2"} |-> [op |-> "", pc |-> "idle", type |-> ""]]]

\* NewTunnel / NewGTunnel: open, nothing torn down, no Disconnect under way
TunInit == tun = [kind |-> "rtunnel", rclosed |-> FALSE, gclosed |-> FALSE, once |-> "new", ran |-> [x \in {"resolver", "proxies", "servers", "hdl", "pcap", "stack"} |-> 0], calls |-> 0, returned |-> 0, finished |-> FALSE, pc |-> [x \in {"g1", "g2"} |-> "idle"]]

\* makeGTCPConn: no conn, no endpoint, the request not completed
GtInit == gt = [c |-> FALSE, ep |-> FALSE, eps |-> 0, once |-> FALSE, completes |-> 0, calls |-> 0, g |-> [x \in {"g1", "g2"} |-> [op |-> "", rst |-> FALSE, pc |-> "idle", complete |-> FALSE, rstres |-> FALSE, sawEp |-> FALSE, sawOk |-> FALSE, made |-> FALSE, open |-> FALSE]]]

\* Set ends with `go m.reaper()`: one more reaper goroutine waits for the lock
\* (the model keeps at most one waiting: a reaper below sizethreshold is a no-op).
Spawned(r) == IF r < 1 THEN r + 1 ELSE r

Get(k) ==
    /\ k \in DOMAIN m /\ ~After(now, m[k].expiry) => m[k].hits < MaxHits
    /\ m' = GetOp(m, k, now)
    /\ ev' = [op |-> "Get", key |-> k, d |-> 0, at |-> now, ret |-> GetRet(m, k, now), pre |-> m]
    /\ UNCHANGED <<lastreap, reapers, now, gets, base>>
    /\ UNCHANGED <<stallVars, expRest>>

Set(k, d) ==
    /\ m' = SetOp(m, k, now, d)
    /\ ev' = [op |-> "Set", key |-> k, d |-> d, at |-> now, ret |-> SetRet(m, k, now, d), pre |-> m]
    /\ reapers' = Spawned(reapers)
    /\ UNCHANGED <<lastreap, now, gets, base>>
    /\ UNCHANGED <<stallVars, expRest>>

Delete(k) ==
    /\ k \in DOMAIN m
    /\ m' = Drop(m, {k})
    /\ ev' = [op |-> "Delete", key |-> k, d |-> 0, at |-> now, ret |-> 0, pre |-> m]
    /\ UNCHANGED <<lastreap, reapers, now, gets, base>>
    /\ UNCHANGED <<stallVars, expRest>>

Clear ==
    /\ m # EmptyMap
    /\ m' = EmptyMap
    /\ ev' = [op |-> "Clear", key |-> "k1", d |-> 0, at |-> now, ret |-> Cardinality(DOMAIN m), pre |-> m]
    /\ UNCHANGED <<lastreap, reapers, now, gets, base>>
    /\ UNCHANGED <<stallVars, expRest>>

\* ExpMap.reaper: below sizethreshold entries, or within reapthreshold of the
\* last reap, it returns at once; else it visits up to maxreapiter + 1 entries
\* (in map order, which is arbitrary) and deletes the expired ones among them.
reaper ==
    /\ reapers > 0
    /\ reapers' = reapers - 1
    /\ IF Cardinality(DOMAIN m) < sizethreshold \/ now - (lastreap + reapthreshold) <= 0
       THEN UNCHANGED <<m, lastreap>>
       ELSE /\ lastreap' = now
            /\ \E S \in SUBSET (DOMAIN m) :
                 /\ Cardinality(S) <= maxreapiter + 1
                 /\ Cardinality(S) = maxreapiter + 1 \/ S = DOMAIN m
                 /\ m' = Drop(m, {k \in S : now - m[k].expiry > 0})
    /\ ev' = [op |-> "reaper", key |-> "k1", d |-> 0, at |-> now, ret |-> 0, pre |-> m]
    /\ UNCHANGED <<now, gets, base>>
    /\ UNCHANGED <<stallVars, expRest>>

Tick ==
    /\ now < MaxTime
    /\ now' = now + 1
    /\ UNCHANGED <<m, lastreap, reapers, ev, gets, base>>
    /\ UNCHANGED <<stallVars, expRest>>

ExpMapInit == ExpInit /\ StallInit /\ PxInit /\ DnsInit /\ TcpInit /\ UdpInit /\ SpInit /\ FamInit /\ QcInit /\ GateInit /\ ProcInit /\ NatInit /\ FwInit /\ MhInit /\ RlInit /\ TunInit /\ GtInit

ExpMapNext ==
    \/ \E k \in Keys : Get(k)
    \/ \E k \in Keys, d \in 1..MaxDelta : Set(k, d)
    \/ \E k \in Keys : Delete(k)
    \/ Clear
    \/ reaper
    \/ Tick

SpecExpMap == ExpMapInit /\ [][ExpMapNext]_vars

Max(a, b) == IF a >= b THEN a ELSE b

\* C9 as stated: after Set(k, d) on an existing entry the expiry is
\* max(previous expiry, now + d); Set never moves an expiry earlier.
SetKeepsMaxExpiry ==
    (ev.op = "Set" /\ ev.key \in DOMAIN ev.pre)
        => m[ev.key].expiry = Max(ev.pre[ev.key].expiry, ev.at + ev.d)

\* C9 amended: after Set(k, d) the entry's expiry is now + d. When that is
\* later than the previous expiry the entry is extended and keeps its hits;
\* otherwise (and for an unseen key) the entry is replaced by a fresh one with
\* 0 hits, whose expiry may be earlier than the previous one. Set returns the
\* hits of the entry it leaves, and touches no other key.
SetExpiryIsNowPlusDelta ==
    ev.op = "Set" =>
        /\ ev.key \in DOMAIN m
        /\ m[ev.key].expiry = ev.at + ev.d
        /\ m[ev.key].hits =
             IF ev.key \in DOMAIN ev.pre /\ ev.at + ev.d > ev.pre[ev.key].expiry
             THEN ev.pre[ev.key].hits ELSE 0
        /\ ev.ret = m[ev.key].hits
        /\ Drop(m, {ev.key}) = Drop(ev.pre, {ev.key})

\* C9 witness: a Set that replaced a live entry holding hits by one that
\* expires earlier.
SetMovedExpiryEarlier ==
    /\ ev.op = "Set"
    /\ ev.key \in DOMAIN ev.pre
    /\ ev.pre[ev.key].hits > 0
    /\ m[ev.key].expiry < ev.pre[ev.key].expiry
    /\ m[ev.key].hits = 0

\* C10: Get(k) on an existing entry adds one hit and returns the new count iff
\* the entry is unexpired (now is not after its expiry); on an expired entry it
\* resets the count to 0 and returns 0; on an unseen key it creates an entry
\* with 0 hits and expiry now and returns 0. Get never changes the expiry of an
\* existing entry and leaves every other key as it was.
GetContract ==
    ev.op = "Get" =>
        /\ ev.key \in DOMAIN m
        /\ ev.ret = m[ev.key].hits
        /\ IF ev.key \notin DOMAIN ev.pre
           THEN m[ev.key] = val(ev.at, 0)
           ELSE /\ m[ev.key].expiry = ev.pre[ev.key].expiry
                /\ (ev.at <= ev.pre[ev.key].expiry) <=> (ev.ret = ev.pre[ev.key].hits + 1)
                /\ (ev.at > ev.pre[ev.key].expiry) => ev.ret = 0
        /\ Drop(m, {ev.key}) = Drop(ev.pre, {ev.key})

\* C10 witness: a Get that reset an expired entry holding hits, next to another
\* key's live entry.
GetResetExpired ==
    /\ ev.op = "Get"
    /\ ev.key \in DOMAIN ev.pre
    /\ ev.at > ev.pre[ev.key].expiry
    /\ ev.pre[ev.key].hits > 0
    /\ ev.ret = 0
    /\ \E k \in DOMAIN m : k # ev.key /\ m[k].hits > 0

(***************************************************************************)
(* One Set followed by Gets of the same key (the counter's cap)            *)
(***************************************************************************)
\* common.go stall: `n > 30 -> secs = 30`; also the largest lifetime it sets
MaxStall == 30

MaxGets == 32      \* Get calls made after the Set

\* the lifetimes handed to the one Set: the shortest, one in between, the longest
CapDeltas == {1, MaxStall \div 2, MaxStall}
MaxTimeCap == 3    \* the clock of SpecGetCap stops advancing here (past the shortest lifetime)

\* The states the one Set may find: no entry, an expired entry, a live entry
\* holding hits.
CapInit ==
    /\ m \in {EmptyMap, Put(EmptyMap, "k1", val(0, 1)), Put(EmptyMap, "k1", val(5, 2))}
    /\ lastreap = 0
    /\ reapers = 0
    /\ now \in {0, 1}
    /\ ev = NoEv
    /\ gets = Zero
    /\ base = Zero
    /\ StallInit
    /\ PxInit
    /\ DnsInit
    /\ TcpInit
    /\ UdpInit
    /\ SpInit
    /\ FamInit
    /\ QcInit
    /\ GateInit
    /\ ProcInit /\ NatInit /\ FwInit /\ MhInit /\ RlInit /\ TunInit /\ GtInit

CapSet(k, d) ==
    /\ ev.op = "none"
    /\ m' = SetOp(m, k, now, d)
    /\ ev' = [op |-> "Set", key |-> k, d |-> d, at |-> now, ret |-> SetRet(m, k, now, d), pre |-> EmptyMap]
    /\ reapers' = Spawned(reapers)
    /\ gets' = [gets EXCEPT ![k] = 0]
    /\ base' = [base EXCEPT ![k] = SetRet(m, k, now, d)]
    /\ UNCHANGED <<lastreap, now>>
    /\ UNCHANGED <<stallVars, expRest>>

CapGet(k) ==
    /\ ev.op # "none"
    /\ gets[k] < MaxGets
    /\ m' = GetOp(m, k, now)
    /\ ev' = [op |-> "Get", key |-> k, d |-> 0, at |-> now, ret |-> GetRet(m, k, now), pre |-> EmptyMap]
    /\ gets' = [gets EXCEPT ![k] = @ + 1]
    /\ UNCHANGED <<lastreap, reapers, now, base>>
    /\ UNCHANGED <<stallVars, expRest>>

CapTick ==
    /\ now < MaxTimeCap
    /\ now' = now + 1
    /\ UNCHANGED <<m, lastreap, reapers, ev, gets, base>>
    /\ UNCHANGED <<stallVars, expRest>>

CapNext ==
    \/ \E d \in CapDeltas : CapSet("k1", d)
    \/ CapGet("k1")
    \/ reaper
    \/ CapTick

SpecGetCap == CapInit /\ [][CapNext]_vars

\* C8 as stated: after one Set(k, d <= 30) and any number of Get(k), no Get(k)
\* returns more than 30.
GetNeverAbove30 == ev.op = "Get" => ev.ret <= MaxStall

\* C8 amended: after one Set(k, d <= 30) and no further Set, a Get(k) made
\* while the entry is unexpired returns the hits the entry held after the Set
\* plus the number of Get(k) calls made so far, and a Get(k) made after the
\* expiry returns 0. Get applies no cap: the value passes 30 when more
\* than 30 Gets reach the entry within its lifetime (stall, not Get, clamps).
GetCountsCallsSinceSet ==
    ev.op = "Get" =>
        ev.ret = IF ev.at > m[ev.key].expiry THEN 0 ELSE base[ev.key] + gets[ev.key]

\* C8 witness: the 31st Get within the lifetime of the entry returned 31.
GetReturned31 == ev.op = "Get" /\ ev.ret = MaxStall + 1 /\ gets["k1"] = MaxStall + 1

(***************************************************************************)
(* stall: repeated blocked attempts of one flow                            *)
(***************************************************************************)
MaxAttempts == 6   \* blocked attempts of the flow
MaxLag == 1        \* an attempt starts at most this long after the previous stall ended
MaxRand == 5       \* rand.Uint32() is drawn from 0..MaxRand

\* A plausible slip in stall: the random stall drawn from 1..6.
stallSecsMod6(n, r) ==
    IF n <= 0 THEN 0
    ELSE IF n > 30 THEN 30
    ELSE IF n < 5 THEN (r % 6) + 1
    ELSE n

\* stall: secs from the hits n that Get returned and the random draw r
stallSecs(n, r) ==
    IF n <= 0 THEN 0
    ELSE IF n > 30 THEN 30
    ELSE IF n < 5 THEN (r % 5) + 1
    ELSE n

\* stall: life30s := ((29 + secs) % 30) + 1
life30s(s) == ((29 + s) % 30) + 1

\* One blocked attempt of the flow with key k: stall(m, k) is Get then Set, and
\* the caller then sleeps secs seconds. An attempt is made only after the
\* previous attempt's sleep has ended.
stall(k) ==
    /\ attempts < MaxAttempts
    /\ now >= wake
    /\ \E r \in 0..MaxRand :
         LET n == GetRet(m, k, now)
             s == stallSecs(n, r)
         IN /\ secs' = s
            /\ m' = SetOp(GetOp(m, k, now), k, now, life30s(s))
            /\ wake' = now + s
    /\ attempts' = attempts + 1
    /\ reapers' = Spawned(reapers)
    /\ UNCHANGED <<lastreap, now, ev, gets, base>>
    /\ UNCHANGED expRest

\* time passes while the caller sleeps, and up to MaxLag longer
StallTick ==
    /\ attempts < MaxAttempts
    /\ now < wake + MaxLag
    /\ now' = now + 1
    /\ UNCHANGED <<m, lastreap, reapers, ev, gets, base, attempts, secs, wake>>
    /\ UNCHANGED expRest

StallNext ==
    \/ stall("k1")
    \/ reaper
    \/ StallTick

SpecStall == ExpMapInit /\ [][StallNext]_vars

\* C7 as stated: of 6 blocked attempts in succession the first stalls 0 s,
\* the second through fifth between 1 and 5 s, the sixth exactly 6 s.
StallRampReaches6 ==
    /\ attempts = 1 => secs = 0
    /\ attempts \in 2..5 => secs \in 1..5
    /\ attempts = 6 => secs = 6

\* C7 amended: of 6 blocked attempts in succession the first stalls 0 s, the
\* second between 1 and 5 s, and each of the third through sixth at most 5 s
\* (0 s when the entry that the previous Set shortened has expired, else 1 to
\* 5 s); the hit count an attempt sees stays below 5, so none stalls 6 s.
StallStaysBelow6 ==
    /\ attempts = 1 => secs = 0
    /\ attempts = 2 => secs \in 1..5
    /\ attempts \in 3..6 => secs \in 0..5
    /\ attempts \in 1..6 /\ "k1" \in DOMAIN m => m["k1"].hits < 5

\* C7 witness: the sixth attempt has been made and stalled 1 to 5 s.
SixthAttemptStalled == attempts = 6 /\ secs \in 1..5 /\ now >= 5

(***************************************************************************)
(* ipn.proxifier: the proxy registry                                       *)
(***************************************************************************)
MaxMade == 4       \* proxies constructed over a run (the three fixed ones included)

\* proxifier.GetProxy: the proxy registered under id, or 0 for errProxyNotFound
\* (ids are never empty here, so `len(id) <= 0` does not arise)
GetProxy(pp, id) == IF id \in DOMAIN pp THEN pp[id] ELSE 0

\* AddProxy(id, url): a proxy is built for the url and registered with
\* proxifier.add, which spawns Stop on the proxy it replaces; a url that
\* cannot be used adds nothing.
AddProxy(id) ==
    /\ made < MaxMade
    /\ made' = made + 1
    /\ \/ /\ p' = addMap(p, id, made + 1)
          /\ stopping' = stopping \cup addStops(p, id, made + 1)
       \/ UNCHANGED <<p, stopping>>
    /\ UNCHANGED <<stopped, refreshed, refOk>>
    /\ UNCHANGED pxRest

\* proxifier.RemoveProxy(id): any registered id is removed, and its proxy stopped
RemoveProxy(id) ==
    /\ id \in DOMAIN p
    /\ stopping' = stopping \cup {p[id]}
    /\ p' = Drop(p, {id})
    /\ UNCHANGED <<made, stopped, refreshed, refOk>>
    /\ UNCHANGED pxRest

\* proxifier.StopProxies: every proxy is stopped and the map replaced by an empty one
StopProxies ==
    /\ stopping' = stopping \cup {p[id] : id \in DOMAIN p}
    /\ p' = EmptyProxies
    /\ UNCHANGED <<made, stopped, refreshed, refOk>>
    /\ UNCHANGED pxRest

\* the sequences that list all members of S but one, once each
OrdersButOne(S) ==
    IF S = {} THEN {<<>>}
    ELSE {q \in [1..(Cardinality(S) - 1) -> S] : \A i, j \in 1..(Cardinality(S) - 1) : q[i] = q[j] => i = j}

\* the sequences that list the members of S once each (a map's iteration order)
Orders(S) == {q \in [1..Cardinality(S) -> S] : \A i, j \in 1..Cardinality(S) : q[i] = q[j] => i = j}

\* proxifier.RefreshProxies: Refresh is called on every proxy; the ids of those
\* that did not fail are joined in iteration order. The map is not written.
RefreshProxies ==
    /\ \E ok \in SUBSET (DOMAIN p) : refOk' = ok /\ refreshed' \in Orders(ok)
    /\ UNCHANGED <<p, made, stopping, stopped>>
    /\ UNCHANGED pxRest

\* a spawned `go p.Stop()` runs
Stop(h) ==
    /\ h \in stopping
    /\ stopping' = stopping \ {h}
    /\ stopped' = stopped \cup {h}
    /\ UNCHANGED <<p, made, refreshed, refOk>>
    /\ UNCHANGED pxRest

PxNext ==
    \/ \E id \in ProxyIds : AddProxy(id)
    \/ \E id \in ProxyIds : RemoveProxy(id)
    \/ StopProxies
    \/ RefreshProxies
    \/ \E h \in 1..MaxMade : Stop(h)

SpecProxies == ExpMapInit /\ [][PxNext]_vars

\* C1: after any sequence of AddProxy, RemoveProxy, RefreshProxies and
\* StopProxies calls, GetProxy succeeds for each of Base, Exit and Block.
ReservedAlwaysPresent == \A id \in {Base, Exit, Block} : GetProxy(p, id) # 0

\* C25: RefreshProxies leaves the registered proxies as they are, Base, Exit and
\* Block included, whichever Refresh calls fail, and the csv it returns lists
\* exactly the ids whose Refresh returned no error, each once.
RefreshListsTheRefreshed ==
    /\ [](/\ {refreshed[i] : i \in 1..Len(refreshed)} = refOk
          /\ Len(refreshed) = Cardinality(refOk))
    /\ [][(refOk' # refOk \/ refreshed' # refreshed) => p' = p]_vars

\* a RefreshProxies in which Base failed to refresh and another proxy did not
RefreshFailedForBase ==
    /\ Base \in DOMAIN p /\ Base \notin refOk
    /\ refOk # {} /\ Len(refreshed) = Cardinality(refOk)

(***************************************************************************)
(* dnsx.resolver: the registry and the two query paths                     *)
(***************************************************************************)
MaxPending == 1    \* OnResponse goroutines spawned and not yet run
MaxCalls == 2      \* Forward and forwardQuery calls made

\* xdns.MinDNSPacketSize, xdns.MaxDNSPacketSize
MinDNSPacketSize == 17
MaxDNSPacketSize == 4096

DNS53 == "DNS"
DNSCrypt == "DNSCrypt"
DOH == "DNS-over-HTTPS"
invalidQname == "invalid.query"

\* a dns.Msg: its rcode/kind, the name of its question, its packed length
Msg(rc, qn, n) == [rc |-> rc, qn |-> qn, n |-> n]
NoMsg == Msg("none", "", 0)

\* byte slices: nil, bytes that are no DNS message, the packed form of a message
NilBytes == [k |-> "nil", msg |-> NoMsg, n |-> 0]
Garbage == [k |-> "garbage", msg |-> NoMsg, n |-> 7]
Wire(msg) == [k |-> "wire", msg |-> msg, n |-> msg.n]

\* unpack: msg.Unpack(q) fails on anything that is not a packed message
unpack(b) == [msg |-> b.msg, err |-> IF b.k = "wire" THEN "none" ELSE "unpack"]

\* (*dns.Msg).Pack of a message that was unpacked or built from one
Pack(msg) == Wire(msg)

\* qname: xdns.QName then xdns.NormalizeQName (lower-cased)
qname(msg) == IF msg.qn = "ADS.test" THEN "ads.test" ELSE msg.qn

\* the queries a client sends
Queries == {Garbage, Wire(Msg("query", "ADS.test", 26))}

\* xdns.RefusedResponseFromMessage: the block answer for a question
RefusedResponseFromMessage(msg) == Msg("blocked", msg.qn, msg.n + 16)

\* r.blockQ(t, msg): the block answer and the matched blocklists when the
\* question is on a blocklist (lists non-empty); skipped for the alg transport
blockQ(t, msg, lists) ==
    IF t = Alg \/ lists = ""
    THEN [res1 |-> NoMsg, blocklists |-> "", err |-> "no block"]
    ELSE [res1 |-> RefusedResponseFromMessage(msg), blocklists |-> lists, err |-> "none"]

\* r.blockA(t, msg, ans1, blocklists): the block answer and the matched
\* blocklists when the answer is on a blocklist, else nil and no names
blockA(t, msg, ans1, lists) ==
    IF t = Alg \/ lists = ""
    THEN [ans2 |-> NoMsg, names |-> ""]
    ELSE [ans2 |-> RefusedResponseFromMessage(msg), names |-> lists]

isAlgErr(err) == err = "alg"

\* what t.Query(network, q, summary) may give back for a question: the answer
\* and error, and the status the transport writes into the summary
TransportAnswers(qn) ==
    { [res |-> Wire(Msg("noerror", qn, 60)), err |-> "none", status |-> "Complete"],
      [res |-> Wire(Msg("noerror", qn, 60)), err |-> "alg", status |-> "Complete"],
      [res |-> Wire(Msg("noerror", qn, 5000)), err |-> "none", status |-> "Complete"],
      [res |-> Wire(Msg("servfail", qn, 40)), err |-> "query", status |-> "SendFailed"],
      [res |-> NilBytes, err |-> "query", status |-> "SendFailed"],
      [res |-> Garbage, err |-> "none", status |-> "Complete"] }

NoAnswer == [res |-> NilBytes, err |-> "none", status |-> "Start"]

\* what natpt.D64 may give back: nothing, or a synthesized answer
D64s(qn) == {NilBytes, Wire(Msg("d64", qn, 80))}

\* resolver.determineTransports
determineTransports(id) ==
    IF id = Alg
    THEN [t |-> IF Alg \in transports THEN Alg ELSE NoTransport,
          onet |-> IF Preferred \in pool THEN Preferred ELSE NoTransport]
    ELSE IF id \in transports /\ id \in pool
         THEN [t |-> id, onet |-> id]
         ELSE [t |-> NoTransport, onet |-> NoTransport]

\* writeto: one Write of a 2-byte big-endian length l followed by l bytes
\* copied from b; wr is what the writer does with it
Frame(b, l) == [pre |-> l % 65536, body |-> b, l |-> l]
NoWrite == [pre |-> -1, body |-> NilBytes, l |-> 0]
writeto(b, l, wr) ==
    [frame |-> Frame(b, l),
     n |-> IF wr = "ok" THEN l + 2 ELSE 0,
     err |-> IF wr = "ok" THEN "none" ELSE "write"]

\* one query as the caller and the listener see it: the path and the query,
\* the blocklists blockQ matched ("" when it did not trigger), whether
\* t.Query was invoked, what was returned and written, and the summary as it
\* stands when the function returns
Call(net, q, bl, queried, ret, err, wrote, summary) ==
    [net |-> net, q |-> q, bl |-> bl, queried |-> queried,
     ret |-> ret, err |-> err, wrote |-> wrote, summary |-> summary]

NewSummary == [QName |-> invalidQname, Status |-> "Start", ID |-> "", Blocklists |-> ""]

\* a variant of the block-by-question branch that still asks the transport
blockedQThenQuery(net, q, id, bq, s1, wr) ==
    LET b == Wire(Msg("noerror", s1.QName, 60))
    IN Call(net, q, bq.blocklists, TRUE,
            IF net = "udp" THEN b ELSE NilBytes, "none",
            IF net = "tcp" THEN writeto(b, b.n, wr).frame ELSE NoWrite,
            [s1 EXCEPT !.Status = "Complete", !.ID = id])

\* the `if err == nil` branch after r.blockQ, in Forward (net = "udp": the
\* packed answer is returned) and in forwardQuery (net = "tcp": it is handed
\* to writeto, whose result is dropped)
blockedQ(net, q, id, bq, s1, wr) ==
    LET b == Pack(bq.res1)
    IN Call(net, q, bq.blocklists, FALSE,
            IF net = "udp" THEN b ELSE NilBytes, "none",
            IF net = "tcp" THEN writeto(b, b.n, wr).frame ELSE NoWrite,
            [s1 EXCEPT !.Status = "Complete", !.Blocklists = bq.blocklists])

\* resolver.Forward(q): the datagram path. id is what listener.OnQuery
\* returned, lists and alists what the blocklists match for the question and
\* for the answer, tq the transport's reply, d64 the DNS64 override.
ForwardOut(q, id, lists, tq, alists, d64) ==
    LET u == unpack(q)
        s1 == [NewSummary EXCEPT !.QName = qname(u.msg)]
        dt == determineTransports(id)
        bq == blockQ(dt.t, u.msg, lists)
        s2 == [s1 EXCEPT !.ID = dt.t, !.Status = tq.status]
        a == unpack(tq.res)
        ba == blockA(dt.t, u.msg, a.msg, alists)
        s3 == IF ba.names # "" THEN [s2 EXCEPT !.Blocklists = ba.names] ELSE s2
        ans1 == IF ba.ans2 # NoMsg THEN ba.ans2 ELSE a.msg
    IN IF u.err # "none"
       THEN Call("udp", q, "", FALSE, NilBytes, u.err, NoWrite,
                 [NewSummary EXCEPT !.Status = "BadQuery"])
       ELSE IF dt.t = NoTransport \/ dt.onet = NoTransport
       THEN Call("udp", q, "", FALSE, NilBytes, "missing transport", NoWrite,
                 [s1 EXCEPT !.Status = "TransportError"])
       ELSE IF bq.err = "none"
       THEN blockedQ("udp", q, id, bq, s1, "ok")
       ELSE IF tq.err # "none" /\ isAlgErr(tq.err)
       THEN Call("udp", q, "", TRUE, tq.res, tq.err, NoWrite, s2)
       ELSE IF a.err # "none"
       THEN Call("udp", q, "", TRUE, tq.res, a.err, NoWrite,
                 [s2 EXCEPT !.Status = "BadResponse"])
       ELSE IF d64.n >= MinDNSPacketSize
       THEN Call("udp", q, "", TRUE, d64, "none", NoWrite, s3)
       ELSE Call("udp", q, "", TRUE, Pack(ans1), "none", NoWrite, s3)

\* resolver.forwardQuery(q, c): the stream path; wr is what c.Write does
forwardQueryOut(q, id, lists, tq, alists, d64, wr) ==
    LET u == unpack(q)
        s1 == [NewSummary EXCEPT !.QName = qname(u.msg)]
        dt == determineTransports(id)
        bq == blockQ(dt.t, u.msg, lists)
        s2 == [s1 EXCEPT !.ID = dt.t, !.Status = tq.status]
        a == unpack(tq.res)
        ba == blockA(dt.t, u.msg, a.msg, alists)
        s3 == IF ba.names # "" THEN [s2 EXCEPT !.Blocklists = ba.names] ELSE s2
        ans1 == IF ba.ans2 # NoMsg THEN ba.ans2 ELSE a.msg
        resp == Pack(ans1)
        rlen == resp.n
        w == writeto(IF rlen > MinDNSPacketSize THEN d64 ELSE resp, rlen, wr)
    IN IF u.err # "none"
       THEN Call("tcp", q, "", FALSE, NilBytes, u.err, NoWrite,
                 [NewSummary EXCEPT !.Status = "BadQuery"])
       ELSE IF dt.t = NoTransport \/ dt.onet = NoTransport
       THEN Call("tcp", q, "", FALSE, NilBytes, "missing transport", NoWrite,
                 [s1 EXCEPT !.Status = "TransportError"])
       ELSE IF bq.err = "none"
       THEN blockedQ("tcp", q, id, bq, s1, wr)
       ELSE IF tq.err # "none" /\ ~isAlgErr(tq.err)
       THEN Call("tcp", q, "", TRUE, NilBytes, tq.err, NoWrite, s2)
       ELSE IF a.err # "none"
       THEN Call("tcp", q, "", TRUE, NilBytes, a.err, NoWrite,
                 [s2 EXCEPT !.Status = "BadResponse"])
       ELSE IF rlen > MaxDNSPacketSize
       THEN Call("tcp", q, "", TRUE, NilBytes, "oversize response", NoWrite,
                 [s3 EXCEPT !.Status = "BadResponse"])
       ELSE IF w.err # "none"
       THEN Call("tcp", q, "", TRUE, NilBytes, w.err, w.frame,
                 [s3 EXCEPT !.Status = "InternalError"])
       ELSE IF w.n # rlen
       THEN Call("tcp", q, "", TRUE, NilBytes, "incomplete response write", w.frame,
                 [s3 EXCEPT !.Status = "InternalError"])
       ELSE Call("tcp", q, "", TRUE, NilBytes, "none", w.frame, s3)

\* the inputs a query consumes: the transport is asked, and the answer
\* filters run, only when the question was not blocked
Asked(q, id, lists) ==
    LET u == unpack(q)
        dt == determineTransports(id)
    IN /\ u.err = "none"
       /\ dt.t # NoTransport /\ dt.onet # NoTransport
       /\ blockQ(dt.t, u.msg, lists).err # "none"

Replies(q, id, lists) ==
    IF Asked(q, id, lists) THEN TransportAnswers(unpack(q).msg.qn) ELSE {NoAnswer}

Overrides(q, tq) ==
    IF tq # NoAnswer /\ unpack(tq.res).err = "none" THEN D64s(unpack(q).msg.qn) ELSE {NilBytes}

AnswerLists(tq) == IF tq # NoAnswer /\ unpack(tq.res).err = "none" THEN {"", "bl2"} ELSE {""}

\* a defer that spawns OnResponse only when the call succeeded
deferredOnSuccess(call) == IF call.err = "none" THEN <<call>> ELSE <<>>

\* `defer func() { go r.listener.OnResponse(summary) }()`, registered before
\* the first return of Forward and of forwardQuery: the goroutines spawned
\* when the call returns
deferred(call) == <<call>>

Forward(q, id) ==
    /\ Len(onresp) < MaxPending /\ calls < MaxCalls
    /\ \E lists \in {"", "bl1"} : \E tq \in Replies(q, id, lists) :
       \E alists \in AnswerLists(tq) : \E d64 \in Overrides(q, tq) :
         onresp' = onresp \o deferred(ForwardOut(q, id, lists, tq, alists, d64))
    /\ calls' = calls + 1
    /\ UNCHANGED <<regVars, heard, replies>>
    /\ UNCHANGED dnsRest

forwardQuery(q, id) ==
    /\ Len(onresp) < MaxPending /\ calls < MaxCalls
    /\ \E lists \in {"", "bl1"} : \E tq \in Replies(q, id, lists) :
       \E alists \in AnswerLists(tq) : \E d64 \in Overrides(q, tq) :
       \E wr \in {"ok", "fail"} :
         onresp' = onresp \o deferred(forwardQueryOut(q, id, lists, tq, alists, d64, wr))
    /\ calls' = calls + 1
    /\ UNCHANGED <<regVars, heard, replies>>
    /\ UNCHANGED dnsRest

\* a spawned `go r.listener.OnResponse(summary)` runs
OnResponse(i) ==
    /\ i \in 1..Len(onresp)
    /\ heard' = [bl |-> onresp[i].bl, summary |-> onresp[i].summary]
    /\ onresp' = SubSeq(onresp, 1, i - 1) \o SubSeq(onresp, i + 1, Len(onresp))
    /\ replies' = replies + 1
    /\ UNCHANGED <<regVars, calls>>
    /\ UNCHANGED dnsRest

\* Gateway.WithTransport(t) and Gateway.WithoutTransport(t) on a gateway in
\* front of g: the first puts it in front of t, the second takes t away from
\* it when it is in front of t
WithTransport(g, t) == t
WithoutTransport(g, t) == IF g = t THEN "" ELSE g

\* resolver.Gateway() is not nil
HasGateway(ts) == Alg \in ts

\* resolver.Remove(id), r.transports[id] being t: the gateway, when there is
\* one, is told; it is gone itself when id is Alg
removeGw(id, t) ==
    IF ~HasGateway(transports) \/ id = Alg THEN ""
    ELSE WithoutTransport(gwt, t)

\* the transport object registered under id
Registered(id) ==
    IF id \notin transports THEN ""
    ELSE IF id = Preferred THEN pref
    ELSE IF id = Default THEN defaultdns
    ELSE IF id = Alg THEN "gateway"
    ELSE "systemdns"

\* an Add that registers the transport and leaves the gateway alone
addGwUnwired(id, h) == gwt

\* resolver.Add(t), under the lock: `if gw := r.Gateway(); t.ID() ==
\* Preferred && gw != nil { gw.WithTransport(t) }`
addGw(id, h) ==
    IF id = Preferred /\ HasGateway(transports) THEN WithTransport(gwt, h) ELSE gwt

\* resolver.Add(t) up to taking the lock, t being the transport h of the
\* given id and type: a DNS53 or DNSCrypt transport is removed first
\* (r.Remove locks on its own), a DOH transport is registered at once, any
\* other type is turned down
Add(id, type, h) ==
    /\ <<id, h>> \notin adding
    /\ \/ /\ type \in {DNS53, DNSCrypt}
          /\ transports' = transports \ {id}
          /\ pool' = pool \ {id}
          /\ adding' = adding \cup {<<id, h>>}
          /\ pref' = IF id = Preferred THEN "" ELSE pref
          /\ gwt' = removeGw(id, Registered(id))
       \/ /\ type = DOH
          /\ transports' = transports \cup {id}
          /\ pool' = pool \cup {id}
          /\ pref' = IF id = Preferred THEN h ELSE pref
          /\ gwt' = addGw(id, h)
          /\ UNCHANGED adding
       \/ /\ type \notin {DNS53, DNSCrypt, DOH}
          /\ UNCHANGED regVars
    /\ UNCHANGED <<onresp, heard, calls, replies>>
    /\ UNCHANGED dnsRest

\* resolver.Add(t), the part under r.Lock()
AddLocked(id, h) ==
    /\ <<id, h>> \in adding
    /\ transports' = transports \cup {id}
    /\ pool' = pool \cup {id}
    /\ adding' = adding \ {<<id, h>>}
    /\ pref' = IF id = Preferred THEN h ELSE pref
    /\ gwt' = addGw(id, h)
    /\ UNCHANGED <<onresp, heard, calls, replies>>
    /\ UNCHANGED dnsRest

\* resolver.Remove(id)
Remove(id) ==
    /\ transports' = transports \ {id}
    /\ pool' = pool \ {id}
    /\ pref' = IF id = Preferred THEN "" ELSE pref
    /\ gwt' = removeGw(id, Registered(id))
    /\ UNCHANGED <<adding, onresp, heard, calls, replies>>
    /\ UNCHANGED dnsRest

DnsNext ==
    \/ \E q \in Queries : \E id \in TransportIds : Forward(q, id)
    \/ \E q \in Queries : \E id \in TransportIds : forwardQuery(q, id)
    \/ \E i \in 1..MaxPending : OnResponse(i)
    \/ \E type \in {DNS53, DOH, "other"} : Add(Preferred, type, "t1")
    \/ AddLocked(Preferred, "t1")
    \/ \E id \in {Preferred, Alg} : Remove(id)

SpecDns == ExpMapInit /\ [][DnsNext]_vars

\* C6: when block-by-question triggers for a query, on the datagram path and
\* on the stream path, the transport's Query is not invoked for it, the bytes
\* returned (datagram) or handed to the writer behind a 2-byte length
\* (stream) are the packed block answer for the question, and the summary
\* the listener gets has status Complete and carries the matched blocklists.
BlockedQuestionNeverQueried ==
    /\ \A i \in 1..Len(onresp) : onresp[i].bl # "" =>
        LET c == onresp[i]
            b == Pack(RefusedResponseFromMessage(unpack(c.q).msg))
        IN /\ ~c.queried
           /\ c.err = "none"
           /\ c.net = "udp" => c.ret = b
           /\ c.net = "tcp" => c.wrote = Frame(b, b.n)
           /\ c.summary.Status = "Complete"
           /\ c.summary.Blocklists = c.bl
           /\ c.summary.ID = ""
    /\ heard.bl # "" =>
           /\ heard.summary.Status = "Complete"
           /\ heard.summary.Blocklists = heard.bl
           /\ heard.summary.ID = ""

\* the listener has the summary of a query blocked by its question while a
\* stream query blocked by its question awaits its report
BlockedOnBothPaths ==
    /\ heard.bl = "bl1" /\ heard.summary.QName = "ads.test"
    /\ Len(onresp) = 1 /\ onresp[1].net = "tcp" /\ onresp[1].bl = "bl1"
    /\ onresp[1].wrote.pre = onresp[1].wrote.body.n
    /\ onresp[1].wrote.body.msg.rc = "blocked"

(***************************************************************************)
(* tcpHandler: Proxy, Handle, forward, sendNotif                           *)
(***************************************************************************)
errTcpFirewalled == "tcp: firewalled"
errTcpSetupConn == "tcp: could not create conn"
errTcpHandshake == "tcp: handshake failed"
errProxyNotFound == "proxy not found"

\* a sendNotif that hands every summary to the listener
sendNotifAlways(status, cid) == TRUE

\* tcpHandler.sendNotif, after its one-second sleep: the summary reaches
\* OnSocketClosed when the handler has not ended and the summary has an id
\* (the listener is never nil here)
sendNotifDelivers(status, cid) == status # TCPEND /\ cid # ""

\* the deferred `if !open { s.done(err); go h.sendNotif(s) }` of Proxy
notOpen(fl, err) == [fl EXCEPT !.err = err, !.notif = "spawned", !.pc = "done"]

\* the Block branch of Proxy once the stall is over, at time t:
\* open = gconn.Connect(rst); err = errTcpFirewalled; return
firewalled(fl, t) == notOpen([fl EXCEPT !.g = "rst", !.gAt = t], errTcpFirewalled)

\* what px.Dial gives: a TCP conn, an error, a conn that is none of the three
\* TCP conn types, or a TCP conn that is not a *net.TCPConn
Dials == {"ok", "fail", "notconn", "nosplit"}

\* tcpHandler.Handle on a flow whose handshake is done: dns says the target is
\* a DNS address (the resolver serves the conn), dial is what px.Dial gives.
\* up is the dialed conn, which Handle closes on none of its returns; g is
\* closed by Proxy when Handle returns an error. The ClientHello splitter is
\* set up for Base only, and wants a *net.TCPConn.
Handle(fl, dns, dial) ==
    IF dns THEN [fl EXCEPT !.pc = "served"]
    ELSE IF GetProxy(p, fl.pid) = 0
    THEN notOpen([fl EXCEPT !.looked = TRUE, !.g = "closed"], errProxyNotFound)
    ELSE IF dial = "fail"
    THEN notOpen([fl EXCEPT !.looked = TRUE, !.dialed = TRUE, !.g = "closed"], "dial failed")
    ELSE IF dial = "notconn" \/ (dial = "nosplit" /\ fl.pid = Base)
    THEN notOpen([fl EXCEPT !.looked = TRUE, !.dialed = TRUE, !.g = "closed", !.up = "open"],
                 errTcpSetupConn)
    ELSE [fl EXCEPT !.looked = TRUE, !.dialed = TRUE, !.pc = "open", !.up = "open"]

\* tcpHandler.Proxy up to its return or, on a blocked flow that stalls, up to
\* the time.Sleep. pid and cid are the gate's decision (onFlow), r the random
\* number stall draws, hs whether gconn.Connect(ack) opens the conn.
Proxy(f) ==
    /\ tcp[f].pc = "new"
    /\ \/ /\ tstatus = TCPEND
          /\ tcp' = [tcp EXCEPT ![f].pc = "done"]
          /\ UNCHANGED <<m, reapers>>
       \/ /\ tstatus # TCPEND
          /\ tcp' = [tcp EXCEPT ![f].g = "rst", ![f].gAt = now, ![f].pc = "done"]
          /\ UNCHANGED <<m, reapers>>
       \/ /\ tstatus # TCPEND
          /\ \E cid \in {"", "c1"} : \E r \in 0..MaxRand :
               LET s == stallSecs(GetRet(m, "k1", now), r)
                   fl == [tcp[f] EXCEPT !.pid = Block, !.cid = cid, !.secs = s, !.at = now]
               IN /\ m' = SetOp(GetOp(m, "k1", now), "k1", now, life30s(s))
                  /\ tcp' = [tcp EXCEPT ![f] = IF s > 0 THEN [fl EXCEPT !.pc = "stalled"]
                                                 ELSE firewalled(fl, now)]
          /\ reapers' = Spawned(reapers)
       \/ /\ tstatus # TCPEND
          /\ \E pid \in {Base, OrbotS5} : \E cid \in {"", "c1"} :
               LET fl == [tcp[f] EXCEPT !.pid = pid, !.cid = cid, !.at = now, !.gAt = now]
               IN \/ tcp' = [tcp EXCEPT ![f] = notOpen([fl EXCEPT !.g = "closed"], errTcpHandshake)]
                  \/ \E dns \in BOOLEAN : \E dial \in Dials :
                       tcp' = [tcp EXCEPT ![f] = Handle([fl EXCEPT !.g = "synack"], dns, dial)]
          /\ UNCHANGED <<m, reapers>>
    /\ UNCHANGED <<lastreap, now, ev, gets, base, tstatus>>
    /\ UNCHANGED tcpRest

\* Proxy on a blocked flow, from the end of its time.Sleep to its return
ProxyWake(f) ==
    /\ tcp[f].pc = "stalled"
    /\ now >= tcp[f].at + tcp[f].secs
    /\ tcp' = [tcp EXCEPT ![f] = firewalled(tcp[f], now)]
    /\ UNCHANGED <<expVars, tstatus>>
    /\ UNCHANGED tcpRest

\* tcpHandler.forward: it returns at once when the handler has ended, else the
\* splice of a proxied flow runs to its end and shuts both conns in both directions
forward(f) ==
    /\ tcp[f].pc = "open"
    /\ tcp' = [tcp EXCEPT ![f] = IF tstatus = TCPEND THEN [tcp[f] EXCEPT !.pc = "done"]
                                   ELSE notOpen([tcp[f] EXCEPT !.g = "closed", !.up = "closed"], "")]
    /\ UNCHANGED <<expVars, tstatus>>
    /\ UNCHANGED tcpRest

\* a spawned `go h.sendNotif(s)` runs
sendNotif(f) ==
    /\ tcp[f].notif = "spawned"
    /\ tcp' = [tcp EXCEPT ![f].notif = IF sendNotifDelivers(tstatus, tcp[f].cid)
                                        THEN "delivered" ELSE "dropped"]
    /\ UNCHANGED <<expVars, tstatus>>
    /\ UNCHANGED tcpRest

\* tcpHandler.End
End ==
    /\ tstatus' = TCPEND
    /\ UNCHANGED <<expVars, tcp>>
    /\ UNCHANGED tcpRest

\* time passes while a blocked flow sleeps
TcpTick ==
    /\ \E f \in TcpFlows : tcp[f].pc = "stalled" /\ now < tcp[f].at + tcp[f].secs
    /\ now' = now + 1
    /\ UNCHANGED <<m, lastreap, reapers, ev, gets, base, tcpVars>>
    /\ UNCHANGED tcpRest

TcpNext ==
    \/ \E f \in TcpFlows : Proxy(f)
    \/ \E f \in TcpFlows : ProxyWake(f)
    \/ \E f \in TcpFlows : forward(f)
    \/ \E f \in TcpFlows : sendNotif(f)
    \/ End
    \/ TcpTick

SpecTcp == ExpMapInit /\ [][TcpNext]_vars

maxconnerr == 3
MaxEgress == 2     \* datagrams the stack hands to HandleData, per flow
MaxIngress == 1    \* datagrams the pump reads from the upstream, per flow

\* the lengths of the datagrams
DataLens == {2}

errUdpFirewalled == "udp: firewalled"
errUdpSetupConn == "udp: could not create conn"
errUdpEnd == "udp: end"

\* a Connect without the Block branch
ConnectUngated(pid, dns, dial) ==
    IF dns THEN "dns"
    ELSE IF GetProxy(p, pid) = 0 THEN errProxyNotFound
    ELSE IF dial = "fail" THEN "dial failed"
    ELSE IF dial = "notconn" THEN errUdpSetupConn
    ELSE "nat"

\* udpHandler.Connect after the gate has decided pid: the error it returns,
\* or "dns" (a DNS target: nothing is dialed, no tracker), or "nat" (dialed,
\* tracker stored, pump spawned). dns is `uid != UidSelf && h.isDns(target)`,
\* dial what px.Dial gives over the flow's real ips.
Connect(pid, dns, dial) ==
    IF pid = Block THEN errUdpFirewalled
    ELSE IF dns THEN "dns"
    ELSE IF GetProxy(p, pid) = 0 THEN errProxyNotFound
    ELSE IF dial = "fail" THEN "dial failed"
    ELSE IF dial = "notconn" THEN errUdpSetupConn
    ELSE "nat"

\* Connect's dial loop `for i, dstip := range makeIPs(realips, target.IP)
\* { target.IP = dstip; px.Dial(...) }`: what target.IP is when the loop
\* ends, over the candidates ips; the first dial succeeds unless all fail
dialTarget(ips, dial) == IF dial = "fail" THEN ips[Len(ips)] ELSE ips[1]

\* the arguments of one `go h.sendNotif(cid, pid, uid, msg, up, down, elapsed)`
Notif(f, cid, msg, up, down, from) ==
    [f |-> f, cid |-> cid, msg |-> msg, up |-> up, down |-> down, from |-> from]

\* OnNewConn on an error from Connect: gconn.Connect(finish), at time t
refuse(fl, t) == [fl EXCEPT !.g = "finished", !.gAt = t, !.pc = "done"]

\* udpHandler.Close(conn, secs) on a flow: conn.Close(); when the flow has a
\* NAT entry the entry is deleted, the upstream closed and sendNotif spawned
\* with the tracker's counters
\* a Close that closes the stack-side conn only
closeFlowStackOnly(fl, inmap) ==
    [fl EXCEPT !.g = "closed",
               !.reclosed = @ \/ fl.g = "closed",
               !.csum = IF inmap THEN @ + 1 ELSE @]

\* reclosed tells that Close was called again for a closed flow, csum counts
\* the summaries the Close calls spawned
closeFlow(fl, inmap) ==
    [fl EXCEPT !.g = "closed", !.up = IF inmap THEN "closed" ELSE @,
               !.reclosed = @ \/ fl.g = "closed",
               !.csum = IF inmap THEN @ + 1 ELSE @]
closeNotifs(f, fl, inmap) ==
    IF inmap
    THEN Append(unotifs, Notif(f, fl.nat.id, fl.nat.msg, fl.nat.upload, fl.nat.download, "Close"))
    ELSE unotifs

\* udpHandler.OnNewConn up to gconn.Connect(forward) or, on a blocked flow
\* that stalls, up to the time.Sleep in Connect
OnNewConn(f) ==
    /\ udp[f].pc = "new"
    /\ \/ /\ ustatus = UDPEND
          /\ udp' = [udp EXCEPT ![f] = refuse(udp[f], now)]
          /\ unotifs' = Append(unotifs, Notif(f, "", errUdpEnd, 0, 0, "OnNewConn"))
          /\ UNCHANGED <<m, reapers, udpConns>>
       \/ /\ ustatus # UDPEND
          /\ \E pid \in {Block, Base, OrbotS5} : \E cid \in {"", "c1"} :
             \E dns \in BOOLEAN : \E dial \in {"ok", "fail", "notconn"} : \E r \in 0..MaxRand :
             \E ips \in {<<AlgIp>>, <<RealIp>>} :
               LET res == Connect(pid, dns, dial)
                   s == stallSecs(GetRet(m, "k1", now), r)
                   fl == [udp[f] EXCEPT !.pid = pid, !.cid = cid, !.dns = dns, !.at = now,
                              !.looked = res \notin {errUdpFirewalled, "dns"},
                              !.dialed = res \in {"dial failed", errUdpSetupConn, "nat"},
                              !.target = IF res \in {"dial failed", errUdpSetupConn, "nat"}
                                         THEN dialTarget(ips, dial) ELSE @]
               IN \/ /\ res = errUdpFirewalled
                     /\ m' = SetOp(GetOp(m, "k1", now), "k1", now, life30s(s))
                     /\ reapers' = Spawned(reapers)
                     /\ udp' = [udp EXCEPT ![f] = IF s > 0 THEN [fl EXCEPT !.pc = "stalled", !.secs = s]
                                                    ELSE refuse(fl, now)]
                     /\ unotifs' = IF s > 0 THEN unotifs
                                   ELSE Append(unotifs, Notif(f, cid, res, 0, 0, "OnNewConn"))
                     /\ UNCHANGED udpConns
                  \/ /\ res = "dns"
                     /\ udp' = [udp EXCEPT ![f] = [fl EXCEPT !.pc = "dialed"]]
                     /\ UNCHANGED <<m, reapers, udpConns, unotifs>>
                  \/ /\ res = "nat"
                     /\ udp' = [udp EXCEPT ![f] = [fl EXCEPT !.pc = "storing", !.up = "open"]]
                     /\ UNCHANGED <<m, reapers, udpConns, unotifs>>
                  \/ /\ res \notin {errUdpFirewalled, "dns", "nat"}
                     /\ udp' = [udp EXCEPT ![f] = refuse(fl, now)]
                     /\ unotifs' = Append(unotifs, Notif(f, cid, res, 0, 0, "OnNewConn"))
                     /\ UNCHANGED <<m, reapers, udpConns>>
    /\ UNCHANGED <<lastreap, now, ev, gets, base, ustatus>>
    /\ UNCHANGED udpRest

\* Connect from the return of px.Dial: the tracker is made and stored under
\* the lock, and the pump spawned. h.status was read at Connect's entry only.
ConnectStore(f) ==
    /\ udp[f].pc = "storing"
    /\ udp' = [udp EXCEPT ![f] = [@ EXCEPT !.pc = "dialed", !.natted = TRUE,
                  !.nat = [makeTracker(udp[f].cid) EXCEPT !.ip = udp[f].target],
                  !.pump = "spawned", !.lateNat = ustatus = UDPEND]]
    /\ udpConns' = udpConns \cup {f}
    /\ UNCHANGED <<expVars, unotifs, ustatus>>
    /\ UNCHANGED udpRest

\* OnNewConn on a blocked flow, from the end of Connect's time.Sleep: Connect
\* returns errUdpFirewalled, the stack-side conn is finished, sendNotif spawned
OnNewConnWake(f) ==
    /\ udp[f].pc = "stalled"
    /\ now >= udp[f].at + udp[f].secs
    /\ udp' = [udp EXCEPT ![f] = refuse(udp[f], now)]
    /\ unotifs' = Append(unotifs, Notif(f, udp[f].cid, errUdpFirewalled, 0, 0, "OnNewConn"))
    /\ UNCHANGED <<expVars, udpConns, ustatus>>
    /\ UNCHANGED udpRest

\* OnNewConn after Connect returned without error: gconn.Connect(forward)
\* connects the stack-side conn, or fails (no route) and sendNotif is spawned
OnNewConnForward(f) ==
    /\ udp[f].pc = "dialed"
    /\ \/ /\ udp' = [udp EXCEPT ![f].g = "connected", ![f].gAt = now, ![f].pc = "live"]
          /\ UNCHANGED unotifs
       \/ /\ udp' = [udp EXCEPT ![f].g = "finished", ![f].gAt = now, ![f].pc = "done"]
          /\ unotifs' = Append(unotifs, Notif(f, udp[f].cid, "no route", 0, 0, "OnNewConn"))
    /\ UNCHANGED <<expVars, udpConns, ustatus>>
    /\ UNCHANGED udpRest

\* the stack hands datagrams of a flow to HandleData only while the flow's
\* stack-side conn is connected
Delivers(fl) == fl.g = "connected"

\* udpHandler.dnsOverride on a flow without NAT entry, after
\* `resp, err := h.resolver.Forward(query)`: `if resp != nil
\* { conn.WriteFrom(resp, addr) }`, addr being the datagram's destination
\* a dnsOverride that writes whatever Forward returned
dnsOverrideAlways(fl, resp) ==
    [fl EXCEPT !.resolved = @ + 1, !.fwd = Append(@, resp),
               !.ans = Append(@, [bytes |-> resp, from |-> fl.dst])]

dnsOverride(fl, resp) ==
    [fl EXCEPT !.resolved = @ + 1, !.fwd = Append(@, resp),
               !.ans = IF resp # NilBytes THEN Append(@, [bytes |-> resp, from |-> fl.dst]) ELSE @]

\* net.Error.Temporary(): true of the temporary errors and of the timeouts
\* (a deadline that passed, ETIMEDOUT)
Temporary(e) == e \in {"temp", "timeout"}

\* udpHandler.HandleData and ReceiveTo for one datagram of the flow, whose
\* destination the stack gives as the flow's; wr is what the upstream Write
\* does. A datagram of a DNS flow is answered by resolver.Forward, whose
\* deferred `go r.listener.OnResponse(summary)` is spawned.
HandleData(f) ==
    /\ Delivers(udp[f])
    /\ udp[f].egress < MaxEgress
    /\ LET fl == [udp[f] EXCEPT !.egress = @ + 1]
       IN \/ /\ ustatus = UDPEND
             /\ udp' = [udp EXCEPT ![f] = fl]
             /\ UNCHANGED <<onresp, calls>>
          \/ /\ ustatus # UDPEND /\ f \notin udpConns /\ fl.dns
             /\ \E q \in Queries : \E id \in TransportIds : \E lists \in {"", "bl1"} :
                \E tq \in Replies(q, id, lists) : \E alists \in AnswerLists(tq) :
                \E d64 \in Overrides(q, tq) :
                  LET call == ForwardOut(q, id, lists, tq, alists, d64)
                  IN /\ onresp' = onresp \o deferred(call)
                     /\ calls' = calls + 1
                     /\ udp' = [udp EXCEPT ![f] = closeFlow(dnsOverride(fl, call.ret), FALSE)]
          \/ /\ ustatus # UDPEND /\ f \notin udpConns /\ ~fl.dns
             /\ udp' = [udp EXCEPT ![f] = fl]
             /\ UNCHANGED <<onresp, calls>>
          \/ /\ ustatus # UDPEND /\ f \in udpConns
             /\ \E len \in DataLens : \E wr \in {"ok", "temp", "timeout", "err"} :
                  /\ Temporary(wr) => fl.nat.errcount <= maxconnerr
                  /\ udp' = [udp EXCEPT ![f] =
                        [fl EXCEPT !.nat.ip = fl.dst,
                                   !.nat.upload = @ + len,
                                   !.nat.errcount = IF wr = "ok" THEN 0
                                                    ELSE IF Temporary(wr) THEN @ + 1 ELSE @,
                                   !.sentUp = IF wr = "ok" THEN @ + len ELSE @,
                                   !.egFailed = @ \/ wr \in {"timeout", "err"},
                                   !.egOk = IF wr = "ok" /\ fl.nat.errcount > 0 THEN "reset" ELSE @]]
             /\ UNCHANGED <<onresp, calls>>
    /\ UNCHANGED <<expVars, udpConns, unotifs, ustatus>>
    /\ UNCHANGED <<flowRest, regVars, heard, replies>>

\* fetchUDPInput up to its loop: when conn.Ready() is false it returns, and
\* its deferred h.Close(conn, elapsed) runs
fetchUDPInput(f) ==
    /\ udp[f].pump = "spawned"
    /\ IF udp[f].g = "connected"
       THEN /\ udp' = [udp EXCEPT ![f].pump = "running"]
            /\ UNCHANGED <<udpConns, unotifs>>
       ELSE LET fl == [udp[f] EXCEPT !.pump = "exited"]
            IN /\ udp' = [udp EXCEPT ![f] = closeFlow(fl, f \in udpConns)]
               /\ unotifs' = closeNotifs(f, fl, f \in udpConns)
               /\ udpConns' = udpConns \ {f}
    /\ UNCHANGED <<expVars, ustatus>>
    /\ UNCHANGED udpRest

\* a pump that does not look at h.status
endedNever(status) == FALSE

\* `if h.status == UDPEND` at the top of fetchUDPInput's loop
ended(status) == status = UDPEND

\* one turn of fetchUDPInput's loop; on every return the deferred
\* h.Close(conn, elapsed) runs
fetchLoop(f) ==
    /\ udp[f].pump = "running"
    /\ \E rd \in {"err", "timeout", "temp", "data"} : \E len \in DataLens : \E wr \in {"ok", "err"} :
         LET fl == udp[f]
             stop == ended(ustatus) \/ fl.nat.errcount > maxconnerr
             out == IF ended(ustatus) THEN [fl EXCEPT !.nat.msg = errUdpEnd, !.why = "end"]
                    ELSE IF fl.nat.errcount > maxconnerr THEN [fl EXCEPT !.why = "errors"]
                    ELSE IF rd = "err" THEN [fl EXCEPT !.nat.msg = "read failed", !.why = "read"]
                    ELSE IF rd = "timeout" THEN [fl EXCEPT !.nat.msg = "i/o timeout", !.why = "read"]
                    ELSE [fl EXCEPT !.nat.download = @ + len, !.ingress = @ + 1, !.rdErrs = 0,
                                    !.why = "write",
                                    !.inOk = IF fl.nat.errcount > 0 THEN "kept" ELSE @]
             gone == [out EXCEPT !.pump = "exited"]
         IN /\ ~stop /\ rd \notin {"err", "timeout"} => fl.up = "open"
            /\ ~stop /\ rd = "temp" => fl.nat.errcount <= maxconnerr
            /\ ~stop /\ rd = "data" => fl.ingress < MaxIngress
            /\ IF ~stop /\ rd = "temp"
               THEN /\ udp' = [udp EXCEPT ![f].nat.errcount = @ + 1, ![f].rdErrs = @ + 1]
                    /\ UNCHANGED <<udpConns, unotifs>>
               ELSE IF ~stop /\ rd = "data" /\ wr = "ok"
               THEN /\ udp' = [udp EXCEPT ![f] = [out EXCEPT !.sentDown = @ + len, !.why = "",
                                                              !.inFrom = fl.nat.ip]]
                    /\ UNCHANGED <<udpConns, unotifs>>
               ELSE /\ udp' = [udp EXCEPT ![f] = closeFlow(gone, f \in udpConns)]
                    /\ unotifs' = closeNotifs(f, gone, f \in udpConns)
                    /\ udpConns' = udpConns \ {f}
    /\ UNCHANGED <<expVars, ustatus>>
    /\ UNCHANGED udpRest

\* udpHandler.Close(conn, secs) called on a connected flow from outside the pump
Close(f) ==
    /\ udp[f].pc = "live" /\ udp[f].g \in {"connected", "closed"}
    /\ ~udp[f].reclosed
    /\ udp' = [udp EXCEPT ![f] = closeFlow(udp[f], f \in udpConns)]
    /\ unotifs' = closeNotifs(f, udp[f], f \in udpConns)
    /\ udpConns' = udpConns \ {f}
    /\ UNCHANGED <<expVars, ustatus>>
    /\ UNCHANGED udpRest

\* a spawned udpHandler.sendNotif runs: after its sleep, OnSocketClosed is
\* called when the handler has not ended and the cid is not empty
udpSendNotif(i) ==
    /\ i \in 1..Len(unotifs)
    /\ LET n == unotifs[i]
       IN udp' = IF ustatus # UDPEND /\ n.cid # ""
                 THEN [udp EXCEPT ![n.f].closed = @ + 1, ![n.f].Tx = n.up,
                                  ![n.f].Rx = n.down, ![n.f].from = n.from]
                 ELSE udp
    /\ unotifs' = SubSeq(unotifs, 1, i - 1) \o SubSeq(unotifs, i + 1, Len(unotifs))
    /\ UNCHANGED <<expVars, udpConns, ustatus>>
    /\ UNCHANGED udpRest

\* udpHandler.End
UdpEnd ==
    /\ ustatus' = UDPEND
    /\ UNCHANGED <<expVars, udp, udpConns, unotifs>>
    /\ UNCHANGED udpRest

\* time passes while a blocked flow sleeps
UdpTick ==
    /\ \E f \in UdpFlows : udp[f].pc = "stalled" /\ now < udp[f].at + udp[f].secs
    /\ now' = now + 1
    /\ UNCHANGED <<m, lastreap, reapers, ev, gets, base, udpVars>>
    /\ UNCHANGED udpRest

UdpNext ==
    \/ \E f \in UdpFlows : OnNewConn(f)
    \/ \E f \in UdpFlows : ConnectStore(f)
    \/ \E f \in UdpFlows : OnNewConnWake(f)
    \/ \E f \in UdpFlows : OnNewConnForward(f)
    \/ \E f \in UdpFlows : HandleData(f)
    \/ OnResponse(1)
    \/ \E f \in UdpFlows : fetchUDPInput(f)
    \/ \E f \in UdpFlows : fetchLoop(f)
    \/ \E f \in UdpFlows : Close(f)
    \/ \E i \in 1..(2 * Cardinality(UdpFlows)) : udpSendNotif(i)
    \/ UdpEnd
    \/ UdpTick

\* The flow is the first of its uid to its target, or follows one that was
\* blocked within the same second: that attempt's stall left the fwtracker
\* entry with 0 hits and 30 seconds to live.
UdpSpecInit ==
    /\ m \in {EmptyMap, Put(EmptyMap, "k1", val(30, 0))}
    /\ lastreap = 0
    /\ reapers = 0
    /\ now = 0
    /\ ev = NoEv
    /\ gets = Zero
    /\ base = Zero
    /\ StallInit
    /\ PxInit
    /\ DnsInit
    /\ TcpInit
    /\ UdpInit
    /\ SpInit
    /\ FamInit
    /\ QcInit
    /\ GateInit
    /\ ProcInit /\ NatInit /\ FwInit /\ MhInit /\ RlInit /\ TunInit /\ GtInit

SpecUdp == UdpSpecInit /\ [][UdpNext]_vars

OnSocketClosedOnce ==
    \A f \in UdpFlows :
        /\ udp[f].closed <= 1
        /\ ( /\ udp[f].cid # "" /\ ustatus = UDPOK /\ unotifs = <<>>
             /\ udp[f].pc = "done" \/ udp[f].g = "closed" )
           => udp[f].closed = 1

\* C5: in a summary made by Close, Tx is the bytes written to the upstream
\* and Rx the bytes written back into the stack.
SummaryCountsWrittenBytes ==
    \A f \in UdpFlows :
        udp[f].closed > 0 /\ udp[f].from = "Close"
            => udp[f].Tx = udp[f].sentUp /\ udp[f].Rx = udp[f].sentDown

\* a flow to a DNS address, not owned by the tunnel, that Connect has let in
DnsFlow(f) == udp[f].dns /\ udp[f].pid # "" /\ udp[f].pid # Block

\* no proxy dialed, no NAT entry, the stack-side conn closed after the first
\* datagram, and no OnSocketClosed with bytes
DnsFlowLeavesNoTrace(f) ==
    /\ ~udp[f].dialed /\ ~udp[f].natted /\ f \notin udpConns
    /\ udp[f].resolved > 0 => udp[f].g = "closed"
    /\ udp[f].resolved = udp[f].egress \/ ustatus = UDPEND
    /\ udp[f].closed > 0 => udp[f].Tx = 0 /\ udp[f].Rx = 0
    /\ \A i \in 1..Len(unotifs) : unotifs[i].f = f => unotifs[i].up = 0 /\ unotifs[i].down = 0

DnsFlowUnanswered ==
    \E f \in UdpFlows :
        /\ DnsFlow(f) /\ udp[f].resolved = 1 /\ udp[f].fwd = <<NilBytes>>
        /\ udp[f].ans = <<>> /\ udp[f].g = "closed"

MasqueradeIsOriginalDst ==
    \A f \in UdpFlows :
        /\ f \in udpConns => udp[f].nat.ip = udp[f].dst
        /\ udp[f].inFrom # "" => udp[f].inFrom = udp[f].dst
        /\ udp[f].target = udp[f].dst

(***************************************************************************)
(* One TCP splice: tcpHandler.forward, handleUpload, handleDownload        *)
(***************************************************************************)
MaxBytes == 2

\* tcpHandler.forward up to `go h.handleUpload(...)` and the call of
\* handleDownload; when the handler has ended it returns at once
spForward ==
    /\ sp.pc = "open"
    /\ sp' = IF tstatus = TCPEND THEN [sp EXCEPT !.pc = "done"]
             ELSE [sp EXCEPT !.pc = "splicing", !.up = "copying", !.down = "copying"]
    /\ UNCHANGED tcpVars
    /\ UNCHANGED spRest

\* io.Copy(remote, local) moves a chunk: read from local, written to remote
copyUp ==
    /\ sp.up = "copying" /\ sp.lr /\ sp.rw /\ sp.Tx < MaxBytes
    /\ sp' = [sp EXCEPT !.Tx = @ + 1]
    /\ UNCHANGED tcpVars
    /\ UNCHANGED spRest

\* io.Copy(local, remote) moves a chunk: read from remote, written to local
copyDown ==
    /\ sp.down = "copying" /\ sp.rr /\ sp.lw /\ sp.Rx < MaxBytes
    /\ sp' = [sp EXCEPT !.Rx = @ + 1]
    /\ UNCHANGED tcpVars
    /\ UNCHANGED spRest

\* what io.Copy returns: nil at EOF, or the read or write error
CopyErrs == {"", "read failed", "write failed"}

\* handleUpload from the return of io.Copy(remote, local) with err:
\* local.CloseRead(); remote.CloseWrite(); ioch <- ioinfo{bytes, err}
handleUpload(err) ==
    /\ sp.up = "copying"
    /\ sp' = [sp EXCEPT !.up = "ended", !.uerr = err, !.lr = FALSE, !.rw = FALSE]
    /\ UNCHANGED tcpVars
    /\ UNCHANGED spRest

\* handleDownload from the return of io.Copy(local, remote) with err:
\* local.CloseWrite(); remote.CloseRead()
handleDownload(err) ==
    /\ sp.down = "copying"
    /\ sp' = [sp EXCEPT !.down = "ended", !.derr = err, !.lw = FALSE, !.rr = FALSE]
    /\ UNCHANGED tcpVars
    /\ UNCHANGED spRest

\* forward after handleDownload returned and `ioi := <-ioch` was received:
\* the summary is completed and `go h.sendNotif(summary)` spawned
forwardJoin ==
    /\ sp.pc = "splicing" /\ sp.up = "ended" /\ sp.down = "ended"
    /\ sp' = [sp EXCEPT !.pc = "done", !.notif = "spawned"]
    /\ UNCHANGED tcpVars
    /\ UNCHANGED spRest

SpNext ==
    \/ spForward
    \/ copyUp
    \/ copyDown
    \/ \E err \in CopyErrs : handleUpload(err)
    \/ \E err \in CopyErrs : handleDownload(err)
    \/ forwardJoin
    \/ End

\* the steps of forward itself are taken when they can be; a copy returns when
\* a half it reads from or writes to has been closed, and otherwise when the
\* peers end it
SpFair ==
    /\ WF_vars(spForward)
    /\ WF_vars(forwardJoin)
    /\ WF_vars((~sp.lr \/ ~sp.rw) /\ handleUpload("read failed"))
    /\ WF_vars((~sp.rr \/ ~sp.lw) /\ handleDownload("read failed"))

SpecSplice == ExpMapInit /\ [][SpNext]_vars /\ SpFair

SpliceErr == sp.uerr # "" \/ sp.derr # ""

\* C13: once a direction of the splice has ended with an error, all four
\* halves of the two conns are closed, and the flow ends (forward completes
\* the summary).
SpliceErrorEndsFlow ==
    /\ [](SpliceErr => ~sp.lr /\ ~sp.lw /\ ~sp.rr /\ ~sp.rw)
    /\ (SpliceErr ~> sp.pc = "done")

(***************************************************************************)
(* undoAlg and filterFamilyForDialing                                      *)
(***************************************************************************)
MaxIps == 2

\* the tokens of a csv of ips: two IPv4 and two IPv6 addresses, one of each
\* unspecified, an IPv4-mapped IPv6 address, an empty token ("a,,b") and one
\* that does not parse
IpTokens == {"1.2.3.4", "0.0.0.0", "2001:db8::1", "::", "::ffff:1.2.3.4", "", "nonsense"}

\* netip.ParseAddr(v) with ip.IsValid(), ip.Is4(), ip.Is6() and
\* ip.IsUnspecified(): Is4 is false for an IPv4-mapped IPv6 address
ParseAddr(v) ==
    [ok |-> v \in {"1.2.3.4", "0.0.0.0", "2001:db8::1", "::", "::ffff:1.2.3.4"},
     Is4 |-> v \in {"1.2.3.4", "0.0.0.0"},
     Is6 |-> v \in {"2001:db8::1", "::", "::ffff:1.2.3.4"},
     IsUnspecified |-> v \in {"0.0.0.0", "::"}]

\* strings.Join(elems, ","): of no element it is the empty string
Join(elems) == IF elems = <<>> THEN <<"">> ELSE elems

\* a filter that keeps the addresses of the active families only
keepsFamilyOnly(v, use4, use6) ==
    /\ Len(v) > 0
    /\ ParseAddr(v).ok
    /\ (ParseAddr(v).Is4 /\ use4) \/ (ParseAddr(v).Is6 /\ use6)

\* the `ip.IsUnspecified() || ip.Is4() && use4 || ip.Is6() && use6` of the loop
keeps(v, use4, use6) ==
    /\ Len(v) > 0
    /\ ParseAddr(v).ok
    /\ ParseAddr(v).IsUnspecified \/ (ParseAddr(v).Is4 /\ use4) \/ (ParseAddr(v).Is6 /\ use6)

\* filterFamilyForDialing(ipcsv), with dialers.Use4() and dialers.Use6()
filterFamilyForDialing(ipcsv, use4, use6) ==
    IF ipcsv = <<"">> THEN ipcsv
    ELSE Join(SelectSeq(ipcsv, LAMBDA v : keeps(v, use4, use6)))

\* undoAlg(r, algip): realips is filterFamilyForDialing(gw.X(algip)) when
\* the resolver has a gateway, and stays empty when not
undoAlg ==
    /\ ~fam.called
    /\ fam' = [fam EXCEPT !.called = TRUE,
                          !.realips = IF fam.gw THEN filterFamilyForDialing(fam.x, fam.use4, fam.use6)
                                      ELSE <<"">>]
    /\ UNCHANGED famRest

\* every csv of up to MaxIps tokens
Csvs == UNION {[1..n -> IpTokens] : n \in 1..MaxIps}

FamSpecInit ==
    /\ ExpInit /\ StallInit /\ PxInit /\ DnsInit /\ TcpInit /\ UdpInit /\ SpInit /\ QcInit /\ GateInit /\ ProcInit /\ NatInit /\ FwInit /\ MhInit /\ RlInit /\ TunInit /\ GtInit
    /\ \E use4 \in BOOLEAN : \E use6 \in BOOLEAN : \E gw \in BOOLEAN : \E x \in Csvs :
         fam = NewFam(use4, use6, gw, x)

SpecFamily == FamSpecInit /\ [][undoAlg]_vars

\* the addresses of a csv
Addrs(csv) == {csv[i] : i \in 1..Len(csv)} \ {""}

\* C14 as stated: with only IPv4 active every address undoAlg hands on is an
\* IPv4 address, with only IPv6 active every one is an IPv6 address.
RealIpsOfActiveFamilyOnly ==
    fam.called =>
        /\ fam.use4 /\ ~fam.use6 => \A v \in Addrs(fam.realips) : ParseAddr(v).ok /\ ParseAddr(v).Is4
        /\ fam.use6 /\ ~fam.use4 => \A v \in Addrs(fam.realips) : ParseAddr(v).ok /\ ParseAddr(v).Is6

\* C14 amended: every address undoAlg hands on parses and is either
\* unspecified (of any family) or of a family the dialers declare active; the
\* output keeps exactly those addresses of the input, in order.
RealIpsUnspecifiedOrOfActiveFamily ==
    fam.called =>
        /\ \A v \in Addrs(fam.realips) :
              /\ ParseAddr(v).ok
              /\ \/ ParseAddr(v).IsUnspecified
                 \/ ParseAddr(v).Is4 /\ fam.use4
                 \/ ParseAddr(v).Is6 /\ fam.use6
        /\ fam.gw /\ fam.x # <<"">> =>
              fam.realips = Join(SelectSeq(fam.x, LAMBDA v :
                  /\ ParseAddr(v).ok
                  /\ \/ ParseAddr(v).IsUnspecified
                     \/ ParseAddr(v).Is4 /\ fam.use4
                     \/ ParseAddr(v).Is6 /\ fam.use6))

\* with only IPv4 active, a list holding an IPv4 address, an IPv6 address and
\* the unspecified IPv6 address came out as the first and the last
FilteredV4KeepsUnspecifiedV6 ==
    /\ fam.called /\ fam.gw /\ fam.use4 /\ ~fam.use6
    /\ fam.x = <<"2001:db8::1", "::">>
    /\ fam.realips = <<"::">>

\* C19: every Forward or forwardQuery call that has returned, on whatever
\* return path, has exactly one OnResponse: either the listener has received
\* it or its goroutine is spawned and has not run yet.
OneOnResponsePerCall ==
    /\ calls = replies + Len(onresp)
    /\ replies > 0 => heard # NoCall

\* two calls were made and answered to the listener, the last one an
\* unparseable query
FailedCallsReported ==
    /\ calls = 2 /\ replies = 2 /\ onresp = <<>>
    /\ heard.summary.Status = "BadQuery"

(***************************************************************************)
(* The registry alone: Add and Remove calls of concurrent callers          *)
(***************************************************************************)
RegNext ==
    \/ \E id \in {Preferred, System} : \E type \in {DNS53, DNSCrypt, DOH, "other"} :
       \E h \in Handles : Add(id, type, h)
    \/ \E id \in {Preferred, System} : \E h \in Handles : AddLocked(id, h)
    \/ \E id \in TransportIds \cup {System} : Remove(id)

SpecRegistry == ExpMapInit /\ [][RegNext]_vars

\* C20: whenever a transport is registered under Preferred and the gateway
\* exists, the gateway sits in front of that transport.
GatewayFollowsPreferred ==
    /\ pref # "" <=> Preferred \in transports
    /\ Preferred \in transports /\ HasGateway(transports) => gwt = pref

\* Preferred was replaced while an Add of the other transport was between its
\* Remove and its locked part, and the gateway sits in front of the new one
PreferredReplacedAndWired ==
    /\ pref = "t2" /\ gwt = "t2" /\ HasGateway(transports)
    /\ <<Preferred, "t1">> \in adding

(***************************************************************************)
(* One query through resolver.Forward and through resolver.forwardQuery    *)
(***************************************************************************)

\* an id choice that falls back to the suggested id
chosenIdOrSuggested(sugg, ans) == IF ans = "" THEN sugg ELSE ans

\* `id := r.requiresSystem(qname); id = r.listener.OnQuery(qname, id)`: sugg
\* is the suggested id, ans what the listener returns
chosenId(sugg, ans) == ans

\* the registries a resolver can hold: as NewResolver leaves it, and with a
\* Preferred or a System transport added
Registries == {NewResolver, NewResolver \cup {Preferred}, NewResolver \cup {System}}

\* what the listener's OnQuery may return when it is suggested sugg
OnQueryAnswers(sugg) == {"", Default, Preferred, Alg, System}

QcSpecInit ==
    /\ ExpInit /\ StallInit /\ PxInit /\ TcpInit /\ UdpInit /\ SpInit /\ FamInit /\ GateInit /\ ProcInit /\ NatInit /\ FwInit /\ MhInit /\ RlInit /\ TunInit /\ GtInit
    /\ transports \in Registries
    /\ pool = transports
    /\ adding = {}
    /\ pref = IF Preferred \in transports THEN "t1" ELSE ""
    /\ gwt = IF Preferred \in transports THEN "t1" ELSE defaultdns
    /\ onresp = <<>> /\ heard = NoCall /\ calls = 0 /\ replies = 0
    /\ \E q \in Queries : \E sugg \in {"", System} : \E ans \in OnQueryAnswers(sugg) :
       \E lists \in {"", "bl1"} : \E tq \in Replies(q, chosenId(sugg, ans), lists) :
       \E alists \in AnswerLists(tq) : \E d64 \in Overrides(q, tq) : \E wr \in {"ok", "fail"} :
         qc = [in |-> [q |-> q, sugg |-> sugg, ans |-> ans, lists |-> lists, tq |-> tq,
                        alists |-> alists, d64 |-> d64, wr |-> wr],
               udone |-> FALSE, tdone |-> FALSE, u |-> <<>>, t |-> <<>>]

\* resolver.Forward(q) on the query
askForward ==
    /\ ~qc.udone
    /\ LET in == qc.in
           call == ForwardOut(in.q, chosenId(in.sugg, in.ans), in.lists, in.tq, in.alists, in.d64)
       IN /\ qc' = [qc EXCEPT !.udone = TRUE, !.u = call]
          /\ onresp' = onresp \o deferred(call)
    /\ calls' = calls + 1
    /\ UNCHANGED <<regVars, heard, replies>>
    /\ UNCHANGED qcRest

\* resolver.forwardQuery(q, c) on the same query
askForwardQuery ==
    /\ ~qc.tdone
    /\ LET in == qc.in
           call == forwardQueryOut(in.q, chosenId(in.sugg, in.ans), in.lists, in.tq, in.alists,
                                   in.d64, in.wr)
       IN /\ qc' = [qc EXCEPT !.tdone = TRUE, !.t = call]
          /\ onresp' = onresp \o deferred(call)
    /\ calls' = calls + 1
    /\ UNCHANGED <<regVars, heard, replies>>
    /\ UNCHANGED qcRest

QcNext ==
    \/ askForward
    \/ askForwardQuery

SpecQuery == QcSpecInit /\ [][QcNext]_vars

\* the query of qc parses, and both paths have handled it
QcParses == unpack(qc.in.q).err = "none"
QcDone == qc.udone /\ qc.tdone

\* the transport's reply with its error taken away
QcPlain == [qc.in.tq EXCEPT !.err = "none"]

\* C15: when the transport gives a response together with an ALG soft error,
\* both paths go on as if there were no error; on any other transport error
\* both paths return that error and leave the response unprocessed.
TransportErrorsTreatedAlike ==
    QcDone /\ qc.u.queried =>
        LET in == qc.in
            id == chosenId(in.sugg, in.ans)
        IN /\ in.tq.err = "alg" /\ in.tq.res # NilBytes =>
                /\ qc.u = ForwardOut(in.q, id, in.lists, QcPlain, in.alists, in.d64)
                /\ qc.t = forwardQueryOut(in.q, id, in.lists, QcPlain, in.alists, in.d64, in.wr)
           /\ in.tq.err \notin {"none", "alg"} =>
                /\ qc.u.err = in.tq.err /\ qc.u.summary.Blocklists = ""
                /\ qc.t.err = in.tq.err /\ qc.t.wrote = NoWrite

\* C16: when Forward fails for a query that parses (missing transport,
\* transport error, bad response), it returns a SERVFAIL response to that
\* query, and the summary's status is neither Start nor Complete.
FailedForwardAnswersServfail ==
    (/\ qc.udone /\ QcParses
     /\ \/ qc.u.err \in {"missing transport", "query", "unpack"}
        \/ qc.u.queried /\ qc.in.tq.err = "query") =>
        /\ qc.u.ret.k = "wire"
        /\ qc.u.ret.msg.rc = "servfail"
        /\ qc.u.ret.msg.qn = unpack(qc.in.q).msg.qn
        /\ qc.u.summary.Status \notin {"Start", "Complete"}

\* the l bytes that follow the length in a frame writeto has written: b when
\* b has l bytes, else b cut or padded with zeros to l bytes
Payload(f) == IF f.body.n = f.l THEN f.body ELSE [k |-> "cut", msg |-> f.body.msg, n |-> f.l]

\* C17: whatever forwardQuery writes is the bytes Forward returns for the same
\* query, after a length that is the number of those bytes; and it writes
\* whenever Forward returns bytes of at most MaxDNSPacketSize without error.
StreamIsFramedDatagram ==
    QcDone =>
        /\ qc.t.wrote # NoWrite =>
              /\ Payload(qc.t.wrote) = qc.u.ret
              /\ qc.t.wrote.pre = qc.u.ret.n
        /\ qc.u.err = "none" /\ qc.u.ret.n <= MaxDNSPacketSize => qc.t.wrote # NoWrite

\* C18: when the listener returns no id and a suggested id exists, both paths
\* do what they do for the suggested id; when it returns an id, for that id.
ListenerChoiceOrSuggested ==
    QcDone /\ QcParses =>
        LET in == qc.in
            id == chosenIdOrSuggested(in.sugg, in.ans)
            none == determineTransports(id).t = NoTransport \/ determineTransports(id).onet = NoTransport
        IN /\ none = (qc.u.err = "missing transport")
           /\ none = (qc.t.err = "missing transport")

\* C21: an Add that starts while Preferred is registered never leaves a
\* moment at which a lookup finds no entry for Preferred, and the entries of
\* r.transports and r.pool for an id are always written together.
AddKeepsEntryVisible ==
    [][/\ transports = pool
       /\ (Preferred \in transports /\ adding # adding' /\ adding \subseteq adding') =>
             determineTransports(Preferred)' # [t |-> NoTransport, onet |-> NoTransport]]_vars

(***************************************************************************)
(* the policy gate: udpHandler.onFlow and tcpHandler.onFlow                *)
(***************************************************************************)
Uids == {-1, 10001}    \* FindProcNetEntry: no entry, or the owner's uid

\* the PID of the Mark as the listener returned it
pidAsReturned(g) == g.lpid

\* the Mark onFlow returns after listener.Flow: an empty PID is replaced by Base
pidOf(g) == IF g.lpid = "" THEN Base ELSE g.lpid

\* the Marks returned without asking the listener: the Block and the Base proxy
optionsBlock == Block
optionsBase == Base

\* return optionsBlock / return optionsBase: listener.Flow is not called
decided(g, pid) == [g EXCEPT !.done = TRUE, !.PID = pid]

\* res := h.listener.Flow(proto, uid, ...); `len(res.PID)` reads through res,
\* a nil pointer dereference when the listener returned nil; else return res
Flow(g, uid) ==
    IF g.lnil
    THEN [g EXCEPT !.flows = @ + 1, !.askeduid = uid, !.fault = TRUE]
    ELSE [g EXCEPT !.flows = @ + 1, !.askeduid = uid, !.done = TRUE, !.PID = pidOf(g), !.CID = g.lcid]

\* udpHandler.onFlow: in BlockModeFilterProc a source address that does not
\* parse is answered with optionsBlock before the listener is reached
udpOnFlow ==
    /\ gate.proto = "udp" /\ ~gate.done /\ ~gate.fault
    /\ gate' = CASE gate.mode = BlockModeSink -> decided(gate, optionsBlock)
                 [] gate.mode = BlockModeNone -> decided(gate, optionsBase)
                 [] gate.mode = BlockModeFilterProc /\ ~gate.srcok -> decided(gate, optionsBlock)
                 [] gate.mode = BlockModeFilterProc /\ gate.srcok -> Flow(gate, gate.procuid)
                 [] OTHER -> Flow(gate, -1)
    /\ UNCHANGED gateRest

\* tcpHandler.onFlow: the source is a *net.TCPAddr, nothing is parsed
tcpOnFlow ==
    /\ gate.proto = "tcp" /\ ~gate.done /\ ~gate.fault
    /\ gate' = CASE gate.mode = BlockModeSink -> decided(gate, optionsBlock)
                 [] gate.mode = BlockModeNone -> decided(gate, optionsBase)
                 [] gate.mode = BlockModeFilterProc -> Flow(gate, gate.procuid)
                 [] OTHER -> Flow(gate, -1)
    /\ UNCHANGED gateRest

GateSpecInit ==
    /\ ExpInit /\ StallInit /\ PxInit /\ DnsInit /\ TcpInit /\ UdpInit /\ SpInit /\ FamInit /\ QcInit
    /\ ProcInit /\ NatInit /\ FwInit /\ MhInit /\ RlInit /\ TunInit /\ GtInit
    /\ \E proto \in {"tcp", "udp"} : \E mode \in BlockModes : \E srcok \in BOOLEAN :
       \E uid \in Uids : \E pid \in {"", Base, Block, OrbotS5} : \E cid \in {"", "c1"} :
       \E lnil \in BOOLEAN :
         /\ proto = "tcp" => srcok
         /\ lnil => pid = "" /\ cid = ""
         /\ gate = [NewGate(proto, mode, srcok, uid, pid, cid) EXCEPT !.lnil = lnil]

GateNext ==
    \/ udpOnFlow
    \/ tcpOnFlow

SpecGate == GateSpecInit /\ [][GateNext]_vars

GateFilters == gate.mode \in {BlockModeFilter, BlockModeFilterProc}

\* C22 as stated: Sink decides Block and None decides Base, both without a
\* listener.Flow call; in Filter and FilterProc listener.Flow is called exactly
\* once and its PID, Base when empty, is the decision.
GateDecidesByMode ==
    gate.done =>
        /\ gate.mode = BlockModeSink => gate.PID = Block /\ gate.flows = 0
        /\ gate.mode = BlockModeNone => gate.PID = Base /\ gate.flows = 0
        /\ GateFilters => gate.flows = 1 /\ gate.PID = (IF gate.lpid = "" THEN Base ELSE gate.lpid)

\* a UDP flow in FilterProc whose source address does not parse
GateSrcUnparsed == gate.proto = "udp" /\ gate.mode = BlockModeFilterProc /\ ~gate.srcok

\* C22: as stated, except that a UDP flow in FilterProc whose source address
\* does not parse is decided Block without a listener.Flow call.
GateDecidesByModeOrBlocksUnparsed ==
    gate.done =>
        /\ gate.mode = BlockModeSink => gate.PID = Block /\ gate.flows = 0
        /\ gate.mode = BlockModeNone => gate.PID = Base /\ gate.flows = 0
        /\ GateSrcUnparsed => gate.PID = Block /\ gate.flows = 0
        /\ (GateFilters /\ ~GateSrcUnparsed) =>
              gate.flows = 1 /\ gate.PID = (IF gate.lpid = "" THEN Base ELSE gate.lpid)

\* a filtered flow for which the listener returned an empty PID
GateEmptyPidIsBase == gate.done /\ GateFilters /\ gate.flows = 1 /\ gate.lpid = "" /\ gate.PID = Base

(***************************************************************************)
(* panics in the pump and callback goroutines                              *)
(***************************************************************************)
\* the goroutines whose function starts with `defer core.Recover(...)`: upload
\* and sendNotif of common.go. download runs in forward's goroutine, which defers
\* nothing; udpHandler.fetchUDPInput and udpHandler.sendNotif defer no recover;
\* `go r.listener.OnResponse(summary)` runs the listener's code bare.
Recovers == {"upload", "sendNotif"}

\* `go f(...)`
spawn(t) ==
    /\ proc.up /\ proc.task[t] = "idle"
    /\ proc' = [proc EXCEPT !.task[t] = "running"]
    /\ UNCHANGED procRest

\* the goroutine's function returns
return(t) ==
    /\ proc.up /\ proc.task[t] = "running"
    /\ proc' = [proc EXCEPT !.task[t] = "returned"]
    /\ UNCHANGED procRest

\* the goroutine's function, or the listener callback it calls, panics: a
\* deferred recover ends this goroutine only, without one the runtime ends
\* the process
panic(t) ==
    /\ proc.up /\ proc.task[t] = "running"
    /\ proc' = IF t \in Recovers
                  THEN [proc EXCEPT !.task[t] = "recovered"]
                  ELSE [proc EXCEPT !.up = FALSE]
    /\ UNCHANGED procRest

ProcNext ==
    \/ \E t \in Tasks : spawn(t)
    \/ \E t \in Tasks : return(t)
    \/ \E t \in Tasks : panic(t)

SpecProc == ExpMapInit /\ [][ProcNext]_vars

\* C23: a panic in a pump goroutine or in a listener callback is caught in that
\* goroutine: the process keeps running.
PanicsNeverEndProcess == proc.up

\* C26: in every TCP flow the gate decides first, then the stack-side handshake
\* is answered (SYN-ACK or RST), then the upstream is dialed: the handshake is
\* never answered before the gate has decided, nothing is dialed when the
\* handshake fails, and when the dial fails the stack side is closed and a
\* summary carrying the dial error reaches the listener.
TcpGateHandshakeDial ==
    \A f \in TcpFlows :
        /\ tcp[f].g # "syn" => tcp[f].pid # ""
        /\ tcp[f].dialed => tcp[f].pid # "" /\ tcp[f].g # "syn" /\ tcp[f].err # errTcpHandshake
        /\ tcp[f].err = "dial failed" =>
              /\ tcp[f].g = "closed"
              /\ tcp[f].notif # "none"
              /\ tcp[f].notif # "dropped"

\* C27: on every way out of a TCP flow whose dial succeeded (the dialed conn is
\* no TCP conn, the ClientHello splitter cannot be set up, forward sees the end
\* flag, the splice finishes) the stack-side conn and the upstream conn are
\* both closed.
TcpDialedFlowClosesBoth ==
    \A f \in TcpFlows :
        (tcp[f].pc = "done" /\ tcp[f].up # "none") => tcp[f].g = "closed" /\ tcp[f].up = "closed"

\* C28: once the ingress pump has stopped (EOF or read error, read timeout,
\* too many errors, failed write into the stack, end flag, conn not ready) or
\* Close has been called, the flow is torn down: the stack-side conn is closed,
\* the upstream is closed and the NAT entry is gone; a further Close changes
\* none of this and spawns no further summary.
UdpTeardownCompletes ==
    [][\A f \in UdpFlows :
          LET stops == udp[f].pump # "exited" /\ udp'[f].pump = "exited"
              closes == udp[f].g # "closed" /\ udp'[f].g = "closed"
              again == udp[f].g = "closed" /\ ~udp[f].reclosed /\ udp'[f].reclosed
          IN /\ (stops \/ closes \/ again) =>
                   /\ udp'[f].g = "closed"
                   /\ udp'[f].up # "open"
                   /\ f \notin udpConns'
                   /\ udp'[f].csum <= 1
             /\ again => /\ unotifs' = unotifs /\ udpConns' = udpConns
                          /\ udp'[f].up = udp[f].up /\ udp'[f].csum = udp[f].csum]_vars

\* Close was called again for a flow whose first Close had closed both conns,
\* removed the NAT entry and spawned the summary
UdpClosedTwice ==
    \E f \in UdpFlows :
        /\ udp[f].reclosed /\ udp[f].csum = 1
        /\ udp[f].g = "closed" /\ udp[f].up = "closed" /\ f \notin udpConns

\* C29: three consecutive temporary (non-timeout) read errors end the flow, and
\* read errors separated by a successful read do not add up: the pump never
\* reads again after three temporary errors in a row, and it gives up for too
\* many errors only after three temporary read errors in a row.
UdpThreeReadErrorsEndFlow ==
    \A f \in UdpFlows :
        /\ udp[f].rdErrs <= maxconnerr
        /\ udp[f].why = "errors" => udp[f].rdErrs = maxconnerr

\* C30: egress treats errors as ingress does: a temporary non-timeout error of
\* the upstream write is counted and borne until the count exceeds 3, a timeout
\* or any other error ends the flow at once (both conns closed, NAT entry
\* gone), and a success does to the count what a successful read does.
UdpEgressErrorsAsIngress ==
    \A f \in UdpFlows :
        /\ udp[f].egFailed => udp[f].g = "closed" /\ udp[f].up # "open" /\ f \notin udpConns
        /\ ~(udp[f].inOk = "kept" /\ udp[f].egOk = "reset")

(***************************************************************************)
(* udpHandler.udpConns: Connect, ReceiveTo and Close called in any order   *)
(***************************************************************************)
MaxTrackers == 3    \* trackers made by Connect over a run
NatConns == {"g1", "g2"}    \* the stack-side conns, the keys of the table

\* the table as the list of its entries [conn, nat], nat being the tracker's number
natHas(tbl, c) == \E i \in DOMAIN tbl : tbl[i].conn = c

\* nat, ok := h.udpConns[conn]: 0 when there is no entry
natGet(tbl, c) ==
    IF natHas(tbl, c) THEN tbl[CHOOSE i \in DOMAIN tbl : tbl[i].conn = c /\ \A j \in 1..(i - 1) : tbl[j].conn # c].nat
    ELSE 0

\* a store that adds an entry whatever the table holds
natAppend(tbl, c, t) == Append(tbl, [conn |-> c, nat |-> t])

\* h.udpConns[src] = nat: the entry of the key is replaced when there is one
natPut(tbl, c, t) ==
    IF natHas(tbl, c)
    THEN [i \in DOMAIN tbl |-> IF tbl[i].conn = c THEN [conn |-> c, nat |-> t] ELSE tbl[i]]
    ELSE Append(tbl, [conn |-> c, nat |-> t])

\* delete(h.udpConns, conn)
natDelete(tbl, c) == SelectSeq(tbl, LAMBDA e : e.conn # c)

\* udpHandler.Connect for conn c: it returns before a tracker is made (blocked,
\* DNS, no proxy, failed dial), or makes one and stores it under the lock
natConnect(c) ==
    /\ Len(natt.of) < MaxTrackers
    /\ \E stores \in BOOLEAN :
         natt' = IF stores
                 THEN LET t == Len(natt.of) + 1
                      IN [natt EXCEPT !.tbl = natPut(@, c, t), !.of = Append(@, c),
                                      !.open = @ \cup {t}]
                 ELSE natt
    /\ UNCHANGED natRest

\* udpHandler.ReceiveTo for conn c: the lookup under the read lock
natReceiveTo(c) ==
    /\ natt' = [natt EXCEPT !.got = natGet(natt.tbl, c)]
    /\ UNCHANGED natRest

\* udpHandler.Close for conn c: the entry is deleted under the lock and the
\* upstream of the tracker it held is closed
natClose(c) ==
    /\ natt' = [natt EXCEPT !.tbl = natDelete(@, c), !.open = @ \ {natGet(natt.tbl, c)}]
    /\ UNCHANGED natRest

NatNext ==
    \/ \E c \in NatConns : natConnect(c)
    \/ \E c \in NatConns : natReceiveTo(c)
    \/ \E c \in NatConns : natClose(c)

SpecNat == ExpMapInit /\ [][NatNext]_vars

summarySwapped(dbytes, derr, upl) == [Tx |-> dbytes, Rx |-> upl.bytes, uerr |-> upl.err, derr |-> derr]

\* smm.Rx = dbytes; smm.Tx = upload.bytes; smm.done(derr, upload.err)
summaryOf(dbytes, derr, upl) == [Tx |-> upl.bytes, Rx |-> dbytes, uerr |-> upl.err, derr |-> derr]

\* forward up to the call of download: uploadch is made, `go upload(...)` spawned
fwdStart ==
    /\ fw.pc = "idle"
    /\ fw' = [fw EXCEPT !.pc = "running", !.up = "piping", !.down = "piping"]
    /\ UNCHANGED fwRest

\* core.Pipe(remote, local) in upload moves a chunk
pipeUp ==
    /\ fw.up = "piping" /\ fw.ubytes < MaxBytes
    /\ fw' = [fw EXCEPT !.ubytes = @ + 1]
    /\ UNCHANGED fwRest

\* core.Pipe(local, remote) in download moves a chunk
pipeDown ==
    /\ fw.down = "piping" /\ fw.dbytes < MaxBytes
    /\ fw' = [fw EXCEPT !.dbytes = @ + 1]
    /\ UNCHANGED fwRest

\* upload from the return of core.Pipe with err: the two halves are closed and
\* `ioch <- ioinfo{n, err}` is reached; the channel has no buffer, so upload
\* waits there until forward receives
upload(err) ==
    /\ fw.up = "piping"
    /\ fw' = [fw EXCEPT !.up = "sending", !.uerr = err,
                        !.ioch = <<[bytes |-> fw.ubytes, err |-> err]>>]
    /\ UNCHANGED fwRest

\* download returns (n, err) to forward
download(err) ==
    /\ fw.down = "piping"
    /\ fw' = [fw EXCEPT !.down = "returned", !.derr = err]
    /\ UNCHANGED fwRest

\* forward after download returned: `upload := <-uploadch` meets upload's send,
\* the summary is filled in and handed to queueSummary
fwdJoin ==
    /\ fw.pc = "running" /\ fw.down = "returned" /\ fw.ioch # <<>>
    /\ fw' = [fw EXCEPT !.pc = "queued", !.up = "done", !.ioch = <<>>,
                        !.smm = summaryOf(fw.dbytes, fw.derr, fw.ioch[1])]
    /\ UNCHANGED fwRest

FwNext ==
    \/ fwdStart
    \/ pipeUp
    \/ pipeDown
    \/ \E err \in CopyErrs : upload(err)
    \/ \E err \in CopyErrs : download(err)
    \/ fwdJoin

SpecForward == ExpMapInit /\ [][FwNext]_vars

closedAfter(call) == call.err # "none"

\* the response of qc went out whole: forwardQuery reached writeto and
\* c.Write took every byte of the frame
QcWroteInFull == qc.tdone /\ qc.t.wrote # NoWrite /\ qc.in.wr = "ok"

\* C33: when a query on a stream connection is answered and its framed
\* response is written in full, forwardQuery returns no error, the status is
\* not InternalError, and the connection is left open for further queries.
StreamStaysOpenAfterFullWrite ==
    QcWroteInFull /\ qc.t.queried =>
        /\ qc.t.err = "none"
        /\ qc.t.summary.Status # "InternalError"
        /\ ~closedAfter(qc.t)

\* what the code does instead: every answered query whose frame was written
\* in full is reported as an incomplete write and ends the connection
StreamClosedAfterFullWrite ==
    QcWroteInFull /\ qc.t.queried =>
        /\ qc.t.err = "incomplete response write"
        /\ qc.t.summary.Status = "InternalError"
        /\ closedAfter(qc.t)

\* an answered query whose frame was written in full
StreamFullWriteSeen == QcWroteInFull /\ qc.t.queried


\* ---------------------------------------------------------------------
\* stall on an entry in any state: one call, its Get and its Set recorded

MaxSeen == 33      \* the largest hit count an entry holds before the call

\* the states stall may find the entry in: absent, or holding up to MaxSeen
\* hits and either expired (expiry 0, seen at instant 1) or live
StallMaps ==
    {EmptyMap} \cup {Put(EmptyMap, "k1", val(e, h)) : e \in {0, 2 * MaxStall}, h \in 0..MaxSeen}

StallOnceInit ==
    /\ m \in StallMaps
    /\ lastreap = 0
    /\ reapers = 0
    /\ now \in {0, 1}
    /\ ev = NoEv
    /\ gets = Zero
    /\ base = Zero
    /\ StallInit
    /\ PxInit /\ DnsInit /\ TcpInit /\ UdpInit /\ SpInit /\ FamInit /\ QcInit /\ GateInit /\ ProcInit /\ NatInit /\ FwInit /\ MhInit /\ RlInit /\ TunInit /\ GtInit

\* stall(m, k), once: ev keeps what m.Get returned (ret) and the lifetime
\* handed to m.Set (d)
stallOnce(k) ==
    /\ ev.op = "none"
    /\ \E r \in 0..MaxRand :
         LET n == GetRet(m, k, now)
             s == stallSecs(n, r)
         IN /\ secs' = s
            /\ m' = SetOp(GetOp(m, k, now), k, now, life30s(s))
            /\ wake' = now + s
            /\ ev' = [op |-> "stall", key |-> k, d |-> life30s(s), at |-> now, ret |-> n, pre |-> m]
    /\ attempts' = attempts + 1
    /\ reapers' = Spawned(reapers)
    /\ UNCHANGED <<lastreap, now, gets, base>>
    /\ UNCHANGED expRest

StallOnceNext ==
    \/ stallOnce("k1")
    \/ reaper

SpecStallOnce == StallOnceInit /\ [][StallOnceNext]_vars

\* C34: stall returns 0 when Get yields 0 hits, 1 to 5 when it yields fewer
\* than 5, the hits themselves from 5 to 30, and 30 above that, so always 0 to
\* 30; it then calls Set with a lifetime of ((29 + secs) mod 30) + 1 seconds,
\* which lies in 1..30 and is 30 when secs is 0.
StallSecsAndLifetimeInRange ==
    ev.op = "stall" =>
        /\ ev.ret = 0 => secs = 0
        /\ ev.ret \in 1..4 => secs \in 1..5
        /\ ev.ret \in 5..30 => secs = ev.ret
        /\ ev.ret > 30 => secs = 30
        /\ secs \in 0..30
        /\ ev.d = ((29 + secs) % 30) + 1
        /\ ev.d \in 1..30
        /\ secs = 0 => ev.d = 30
        /\ m[ev.key].expiry = ev.at + ev.d

\* C34 witness: Get yielded more than 30 hits, stall returned 30 and set a
\* lifetime of 30 s.
StallCappedAt30 == ev.op = "stall" /\ ev.ret > 30 /\ secs = 30 /\ ev.d = 30


(***************************************************************************)
(* multihost.MH: the hostnames and addresses of one endpoint               *)
(***************************************************************************)
MaxMhOps == 3      \* calls made on the MH

\* the two revisions of multihost.go in the tree
MhRevs == {"part_002", "part_003"}

MhIps == {"ip1", "ip2", "0.0.0.0"}

\* what callers hand in: a hostname, addresses, an address with a port, nothing
MhItems == {"h1", "ip1", "ip1:53", "0.0.0.0", ""}

\* what the resolver may answer for a hostname: nothing, or one address
Resolutions == {<<>>, <<"ip2">>}

\* netip.ParseAddr succeeds
isAddr(s) == s \in MhIps

\* MH.normalize: TrimSpace, then the host of host:port
normalize(dip) == IF dip = "ip1:53" THEN "ip1" ELSE dip

\* strings.TrimSpace (no entry here has blanks around it)
TrimSpace(dip) == dip

NoHosts == [names |-> <<>>, addrs |-> <<>>, lits |-> {}]

\* the body of the loop over domainsOrIps, in Add (part_002) and With (part_003)
addOne(h, raw, rs, v) ==
    LET dip == IF v = "part_002" THEN normalize(raw) ELSE TrimSpace(raw)
    IN IF dip = "" THEN h
       ELSE IF ~isAddr(dip)
       THEN [h EXCEPT !.names = Append(@, dip), !.addrs = @ \o rs]
       ELSE [h EXCEPT !.addrs = Append(@, dip), !.lits = @ \cup {dip}]

RECURSIVE addAll(_, _, _, _)
addAll(h, items, rs, v) ==
    IF items = <<>> THEN h
    ELSE addAll(addOne(h, Head(items), rs, v), Tail(items), rs, v)

\* MH.Add (part_002): appends to what is there
mhAddOp(h, items, rs) == addAll(h, items, rs, "part_002")

\* MH.With: empties names and addrs, then adds
mhWithOp(h, items, rs, v) == addAll(NoHosts, items, rs, v)

\* MH.straddrs: part_002 leaves out unspecified addresses; part_003 makes a
\* slice of len(addrs) empty strings and appends to it
straddrs(h, v) ==
    IF v = "part_002"
    THEN SelectSeq(h.addrs, LAMBDA ip : ip # "0.0.0.0")
    ELSE [i \in 1..Len(h.addrs) |-> ""] \o h.addrs

\* MH.Refresh
mhRefreshOp(h, rs, v) ==
    IF v = "part_002"
    THEN LET h1 == mhWithOp(h, h.names, rs, v)
         IN mhAddOp(h1, straddrs(h1, v), rs)
    ELSE LET h1 == IF Len(h.names) > 0 THEN mhWithOp(h, h.names, rs, v) ELSE h
             totips == IF Len(h.names) > 0 THEN Len(h1.addrs) ELSE 0
         IN IF totips <= 0 THEN mhWithOp(h1, straddrs(h1, v), rs, v) ELSE h1

\* the lists handed to Add and With: none, one entry of each kind, and mixes
\* of a hostname with addresses
MhLists ==
    {<<>>} \cup {<<i>> : i \in MhItems}
        \cup {<<"h1", "ip1">>, <<"ip1:53", "h1">>, <<"ip1", "0.0.0.0">>}

MhSpecInit ==
    /\ ExpInit /\ StallInit /\ PxInit /\ DnsInit /\ TcpInit /\ UdpInit /\ SpInit /\ FamInit /\ QcInit
    /\ GateInit /\ ProcInit /\ NatInit /\ FwInit /\ RlInit /\ TunInit /\ GtInit
    /\ \E v \in MhRevs :
         mh = [v |-> v, names |-> <<>>, addrs |-> <<>>, lits |-> {}, pre |-> NoHosts,
               op |-> "New", ops |-> 0]

mhSet(h, op) ==
    mh' = [v |-> mh.v, names |-> h.names, addrs |-> h.addrs, lits |-> h.lits,
           pre |-> [names |-> mh.names, addrs |-> mh.addrs, lits |-> mh.lits],
           op |-> op, ops |-> mh.ops + 1]

\* h.Add(domainsOrIps); an empty list returns at once
mhAdd(items) ==
    /\ mh.ops < MaxMhOps /\ mh.v = "part_002"
    /\ \E rs \in Resolutions : mhSet(mhAddOp(mh, items, rs), "Add")
    /\ UNCHANGED mhRest

\* h.With(domainsOrIps)
mhWith(items) ==
    /\ mh.ops < MaxMhOps
    /\ \E rs \in Resolutions : mhSet(mhWithOp(mh, items, rs, mh.v), "With")
    /\ UNCHANGED mhRest

\* h.Refresh()
mhRefresh ==
    /\ mh.ops < MaxMhOps
    /\ \E rs \in Resolutions : mhSet(mhRefreshOp(mh, rs, mh.v), "Refresh")
    /\ UNCHANGED mhRest

MhNext ==
    \/ \E items \in MhLists : mhAdd(items)
    \/ \E items \in MhLists : mhWith(items)
    \/ mhRefresh

SpecMultihost == MhSpecInit /\ [][MhNext]_vars

Elems(s) == {s[i] : i \in 1..Len(s)}

\* C35: Refresh keeps what was stored: every IP literal that was in the
\* address list before it is in the address list after it, and every hostname
\* that was in the name list is in the name list after it.
RefreshKeepsNamesAndLiterals ==
    mh.op = "Refresh" =>
        /\ mh.pre.lits \subseteq Elems(mh.addrs)
        /\ Elems(mh.pre.names) \subseteq Elems(mh.names)

\* what does hold in part_002: the hostnames stay
RefreshKeepsNames ==
    mh.op = "Refresh" /\ mh.v = "part_002" => Elems(mh.pre.names) \subseteq Elems(mh.names)

\* a Refresh of an MH that held a hostname and an address literal
RefreshedMixed == mh.op = "Refresh" /\ mh.pre.lits # {} /\ mh.pre.names # <<>>


(***************************************************************************)
(* resolver.AddSystemDNS and RemoveSystemDNS under the resolver's lock     *)
(***************************************************************************)
MaxSdCalls == 3    \* calls of AddSystemDNS and RemoveSystemDNS over a run

SdCallers == {"g1", "g2"}

\* the points where a caller waits in r.Lock(): AddSystemDNS,
\* addSystemDnsIfAbsent, Remove, Add (the DOH case), RemoveSystemDNS
LockPoints == {"asd.lock", "absent.lock", "remove.lock", "add.lock", "rsd.lock"}

\* where a caller is once r.Lock() has returned
locked(pc) ==
    CASE pc = "asd.lock" -> "asd.append"
      [] pc = "absent.lock" -> "absent.check"
      [] pc = "remove.lock" -> "remove.body"
      [] pc = "add.lock" -> "add.body"
      [] pc = "rsd.lock" -> "rsd.clear"

\* sync.RWMutex.Lock returns only when nobody holds the lock, the caller
\* itself included
lockFree(holder, g) == holder = ""

RlSpecInit ==
    /\ ExpInit /\ StallInit /\ PxInit /\ DnsInit /\ TcpInit /\ UdpInit /\ SpInit /\ FamInit /\ QcInit
    /\ GateInit /\ ProcInit /\ NatInit /\ FwInit /\ MhInit /\ TunInit /\ GtInit
    /\ \E reg \in SUBSET {System} :
         rl = [holder |-> "", systemdns |-> 0, reg |-> reg, calls |-> 0,
               g |-> [x \in SdCallers |-> [op |-> "", pc |-> "idle", type |-> ""]]]

\* r.AddSystemDNS(t), t.ID() being System: up to its r.Lock()
AddSystemDNS(g, type) ==
    /\ rl.g[g].pc = "idle" /\ rl.calls < MaxSdCalls
    /\ rl' = [rl EXCEPT !.calls = @ + 1,
                        !.g[g] = [op |-> "AddSystemDNS", pc |-> "asd.lock", type |-> type]]
    /\ UNCHANGED rlRest

\* r.RemoveSystemDNS(): up to its r.Lock()
RemoveSystemDNS(g) ==
    /\ rl.g[g].pc = "idle" /\ rl.calls < MaxSdCalls
    /\ rl' = [rl EXCEPT !.calls = @ + 1,
                        !.g[g] = [op |-> "RemoveSystemDNS", pc |-> "rsd.lock", type |-> ""]]
    /\ UNCHANGED rlRest

\* r.Lock() returns to g
rLock(g) ==
    /\ rl.g[g].pc \in LockPoints
    /\ lockFree(rl.holder, g)
    /\ rl' = [rl EXCEPT !.holder = g, !.g[g].pc = locked(@)]
    /\ UNCHANGED rlRest

\* what g does with the lock held, up to its next r.Lock() or its return
rlStep(g) ==
    /\ rl.g[g].pc \notin LockPoints \cup {"idle"}
    /\ LET c == rl.g[g]
       IN CASE c.pc = "asd.append" ->
                 \* r.systemdns = append(r.systemdns, t); r.Unlock(); the
                 \* deferred addSystemDnsIfAbsent(t) runs
                 rl' = [rl EXCEPT !.systemdns = @ + 1, !.holder = "", !.g[g].pc = "absent.lock"]
            [] c.pc = "absent.check" ->
                 IF System \in rl.reg
                 THEN rl' = [rl EXCEPT !.holder = "", !.g[g].pc = "idle"]
                 ELSE IF c.type \in {DNS53, DNSCrypt}
                 THEN rl' = [rl EXCEPT !.g[g].pc = "remove.lock"]
                 ELSE IF c.type = DOH
                 THEN rl' = [rl EXCEPT !.g[g].pc = "add.lock"]
                 ELSE rl' = [rl EXCEPT !.holder = "", !.g[g].pc = "idle"]
            [] c.pc = "remove.body" ->
                 rl' = [rl EXCEPT !.reg = @ \ {System}, !.holder = "",
                                  !.g[g].pc = IF c.op = "AddSystemDNS" THEN "add.lock" ELSE "idle"]
            [] c.pc = "add.body" ->
                 rl' = [rl EXCEPT !.reg = @ \cup {System}, !.holder = "", !.g[g].pc = "idle"]
            [] c.pc = "rsd.clear" ->
                 \* r.systemdns = nil; r.Unlock(); the deferred r.Remove(System) runs
                 rl' = [rl EXCEPT !.systemdns = 0, !.holder = "", !.g[g].pc = "remove.lock"]
    /\ UNCHANGED rlRest

RlNext ==
    \/ \E g \in SdCallers : \E type \in {DNS53, DNSCrypt, DOH, "other"} : AddSystemDNS(g, type)
    \/ \E g \in SdCallers : RemoveSystemDNS(g)
    \/ \E g \in SdCallers : rLock(g)
    \/ \E g \in SdCallers : rlStep(g)

SpecSystemDns == RlSpecInit /\ [][RlNext]_vars

\* C36: AddSystemDNS never waits for the resolver's lock while holding it, so
\* the call returns and the lock is free for other operations afterwards.
AddSystemDNSNeverWaitsOnItself ==
    \A g \in SdCallers : ~(rl.g[g].pc \in LockPoints /\ rl.holder = g)

\* what does hold: a caller waits on itself only inside AddSystemDNS of a
\* DNS53, DNSCrypt or DOH transport whose id was not registered; any other
\* call gets through
SelfWaitOnlyWhenAbsent ==
    \A g \in SdCallers :
        rl.g[g].pc \in LockPoints /\ rl.holder = g =>
            /\ rl.g[g].op = "AddSystemDNS"
            /\ rl.g[g].type \in {DNS53, DNSCrypt, DOH}
            /\ System \notin rl.reg

\* AddSystemDNS has returned with its transport's id already registered
AddSystemDNSReturned ==
    \E g \in SdCallers :
        rl.g[g].op = "AddSystemDNS" /\ rl.g[g].pc = "idle" /\ rl.systemdns > 0 /\ System \in rl.reg


\* ---------------------------------------------------------------------
\* Forward after block-by-answer

\* the block answer r.blockA gave for the transport's answer to qc's query, or
\* NoMsg when Forward did not get to blockA or blockA did not match
QcBlockedAnswer ==
    LET in == qc.in
        dt == determineTransports(chosenId(in.sugg, in.ans))
    IN IF qc.udone /\ qc.u.queried
          /\ in.tq.err = "none" /\ unpack(in.tq.res).err = "none"
       THEN blockA(dt.t, unpack(in.q).msg, unpack(in.tq.res).msg, in.alists).ans2
       ELSE NoMsg

\* C37: when block-by-answer matches the transport's answer, Forward returns
\* the blocked answer; the DNS64 step does not put a response made from the
\* unblocked answer in its place.
ForwardReturnsBlockedAnswer ==
    QcBlockedAnswer # NoMsg =>
        /\ qc.u.err = "none"
        /\ qc.u.ret = Pack(QcBlockedAnswer)

\* what does hold: the blocked answer is returned unless natpt.D64 gave an
\* answer of at least MinDNSPacketSize bytes, which is returned instead
ForwardReturnsBlockedAnswerOrD64 ==
    QcBlockedAnswer # NoMsg =>
        /\ qc.u.err = "none"
        /\ qc.u.ret = IF qc.in.d64.n >= MinDNSPacketSize THEN qc.in.d64 ELSE Pack(QcBlockedAnswer)
        /\ qc.u.summary.Blocklists = qc.in.alists

\* block-by-answer matched and Forward returned the blocked answer
ForwardBlockedByAnswer ==
    QcBlockedAnswer # NoMsg /\ qc.u.ret = Pack(QcBlockedAnswer) /\ qc.u.ret.msg.rc = "blocked"


\* ---------------------------------------------------------------------
\* the gate whatever the listener returns

\* onFlow has run: it returned a Mark or faulted
GateRan == gate.done \/ gate.fault

\* C38: the gate always yields a usable decision: whatever listener.Flow
\* returns, nil and a Mark with an empty PID included, onFlow returns a Mark
\* with a non-empty PID (Base when the listener named none) and does not
\* fault, for TCP and for UDP.
GateAlwaysDecides ==
    GateRan =>
        /\ ~gate.fault
        /\ gate.done /\ gate.PID # ""
        /\ gate.flows = 1 /\ (gate.lnil \/ gate.lpid = "") => gate.PID = Base

\* what does hold: a Mark that onFlow returns has a non-empty PID, and onFlow
\* faults exactly when the listener was asked and returned nil
GateDecidesUnlessNil ==
    GateRan =>
        /\ gate.done => gate.PID # ""
        /\ gate.fault <=> gate.flows = 1 /\ gate.lnil

\* the listener returned a Mark with an empty PID and onFlow returned Base
GateEmptyPidDecided == gate.done /\ gate.flows = 1 /\ gate.lpid = "" /\ ~gate.lnil /\ gate.PID = Base


(***************************************************************************)
(* Tunnel.Disconnect: rtunnel over gtunnel                                 *)
(***************************************************************************)
MaxTdCalls == 3    \* Disconnect calls over a run

TdCallers == {"g1", "g2"}

\* the teardown, in the order it is made: resolver.Stop, proxies.StopProxies,
\* services.StopServers in rtunnel.Disconnect; hdl.Close, pcapio.Close,
\* stack.Destroy in gtunnel.Disconnect
TdSteps == {"resolver", "proxies", "servers", "hdl", "pcap", "stack"}

\* where a caller is after the step
tdAfter(step) ==
    CASE step = "resolver" -> "proxies"
      [] step = "proxies" -> "servers"
      [] step = "servers" -> "once"
      [] step = "hdl" -> "pcap"
      [] step = "pcap" -> "stack"
      [] step = "stack" -> "store"

\* a check that lets every caller through
neverClosed(t) == FALSE

\* rtunnel.Disconnect: `closed := t.closed; t.closed = true` under clomu, then
\* `if closed { return }`
alreadyClosed(t) == t.rclosed

\* gtunnel.IsConnected: !t.closed.Load()
IsConnected == ~tun.gclosed

TunSpecInit ==
    /\ ExpInit /\ StallInit /\ PxInit /\ DnsInit /\ TcpInit /\ UdpInit /\ SpInit /\ FamInit /\ QcInit
    /\ GateInit /\ ProcInit /\ NatInit /\ FwInit /\ MhInit /\ RlInit /\ GtInit
    /\ \E kind \in {"rtunnel", "gtunnel"} :
         tun = [kind |-> kind, rclosed |-> FALSE, gclosed |-> FALSE, once |-> "new",
                ran |-> [x \in TdSteps |-> 0], calls |-> 0, returned |-> 0, finished |-> FALSE,
                pc |-> [x \in TdCallers |-> "idle"]]

\* t.Disconnect() is called: on an rtunnel, up to clomu.Lock(); on a gtunnel, up
\* to once.Do
Disconnect(g) ==
    /\ tun.pc[g] = "idle" /\ tun.calls < MaxTdCalls
    /\ tun' = [tun EXCEPT !.calls = @ + 1,
                          !.pc[g] = IF tun.kind = "rtunnel" THEN "flag" ELSE "once"]
    /\ UNCHANGED tunRest

\* rtunnel.Disconnect: the flag is read and set under the lock; a caller that
\* finds it set returns
tdFlag(g) ==
    /\ tun.pc[g] = "flag"
    /\ IF alreadyClosed(tun)
       THEN tun' = [tun EXCEPT !.rclosed = TRUE, !.pc[g] = "idle", !.returned = @ + 1]
       ELSE tun' = [tun EXCEPT !.rclosed = TRUE, !.pc[g] = "resolver"]
    /\ UNCHANGED tunRest

\* one step of the teardown: in rtunnel.Disconnect resolver.Stop,
\* proxies.StopProxies, services.StopServers, then t.Tunnel.Disconnect(); in
\* the function handed to once.Do hdl.Close, pcapio.Close, stack.Destroy
tdStep(g) ==
    /\ tun.pc[g] \in TdSteps
    /\ tun' = [tun EXCEPT !.ran[tun.pc[g]] = @ + 1, !.pc[g] = tdAfter(tun.pc[g])]
    /\ UNCHANGED tunRest

\* gtunnel.Disconnect: t.once.Do(f) runs f for the first caller, waits while f
\* runs for another, and returns at once when f has run
tdOnce(g) ==
    /\ tun.pc[g] = "once"
    /\ tun.once # "running"
    /\ IF tun.once = "new"
       THEN tun' = [tun EXCEPT !.once = "running", !.pc[g] = "hdl"]
       ELSE tun' = [tun EXCEPT !.pc[g] = "idle", !.returned = @ + 1]
    /\ UNCHANGED tunRest

\* the function handed to once.Do, its end: t.closed.Store(true)
tdStore(g) ==
    /\ tun.pc[g] = "store"
    /\ tun' = [tun EXCEPT !.gclosed = TRUE, !.pc[g] = "done"]
    /\ UNCHANGED tunRest

\* once.Do returns, and with it Disconnect
tdDone(g) ==
    /\ tun.pc[g] = "done"
    /\ tun' = [tun EXCEPT !.once = "done", !.pc[g] = "idle", !.returned = @ + 1,
                          !.finished = TRUE]
    /\ UNCHANGED tunRest

TunNext ==
    \/ \E g \in TdCallers : Disconnect(g)
    \/ \E g \in TdCallers : tdFlag(g)
    \/ \E g \in TdCallers : tdStep(g)
    \/ \E g \in TdCallers : tdOnce(g)
    \/ \E g \in TdCallers : tdStore(g)
    \/ \E g \in TdCallers : tdDone(g)

SpecTunnel == TunSpecInit /\ [][TunNext]_vars

\* the teardown steps ran at most once each
TornDownAtMostOnce == \A x \in TdSteps : tun.ran[x] <= 1

\* C39 as stated: however often and from however many tasks Disconnect is
\* called, each teardown step runs at most once; IsConnected is true before
\* the first Disconnect, false once a Disconnect has returned, and never true
\* again.
DisconnectIdempotent ==
    /\ [](/\ TornDownAtMostOnce
          /\ tun.calls = 0 => IsConnected
          /\ tun.returned > 0 => ~IsConnected)
    /\ [][~IsConnected => ~IsConnected']_vars

\* C39: each teardown step runs at most once; IsConnected is true before the
\* first Disconnect, false once the Disconnect that did the teardown (or, on a
\* gtunnel, any Disconnect) has returned, and never true again; an
\* rtunnel.Disconnect that finds the tunnel already marked closed returns at
\* once, possibly while the teardown of the other call is still under way and
\* IsConnected is still true.
DisconnectIdempotentOnceTornDown ==
    /\ [](/\ TornDownAtMostOnce
          /\ tun.calls = 0 => IsConnected
          /\ tun.finished => ~IsConnected
          /\ tun.kind = "gtunnel" /\ tun.returned > 0 => ~IsConnected
          /\ tun.returned > 0 /\ IsConnected =>
                /\ tun.rclosed
                /\ \E g \in TdCallers : tun.pc[g] \in TdSteps \cup {"once", "store"})
    /\ [][~IsConnected => ~IsConnected']_vars

\* C39 witness: a Disconnect has returned while the teardown of another is
\* still under way and IsConnected is true
DisconnectReturnedEarly == tun.returned > 0 /\ IsConnected /\ tun.ran["resolver"] = 1

\* every caller has returned, the teardown ran once, the tunnel is closed
DisconnectedByAll ==
    /\ tun.returned = MaxTdCalls /\ ~IsConnected
    /\ \A x \in TdSteps : tun.ran[x] = (IF x \in {"hdl", "pcap", "stack"} \/ tun.kind = "rtunnel" THEN 1 ELSE 0)


(***************************************************************************)
(* netstack.GTCPConn: makeEndpoint, Redo, StatefulTeardown                 *)
(***************************************************************************)
MaxGtCalls == 3    \* calls made on the GTCPConn over a run

GtCallers == {"g1", "g2"}

\* a check that never finds the conn
okNever(t) == FALSE

\* GTCPConn.ok: g.conn() != nil
ok(t) == t.c

NoGtCall ==
    [op |-> "", rst |-> FALSE, pc |-> "idle", complete |-> FALSE, rstres |-> FALSE,
     sawEp |-> FALSE, sawOk |-> FALSE, made |-> FALSE, open |-> FALSE]

GtSpecInit ==
    /\ ExpInit /\ StallInit /\ PxInit /\ DnsInit /\ TcpInit /\ UdpInit /\ SpInit /\ FamInit /\ QcInit
    /\ GateInit /\ ProcInit /\ NatInit /\ FwInit /\ MhInit /\ RlInit /\ TunInit
    /\ gt = [c |-> FALSE, ep |-> FALSE, eps |-> 0, once |-> FALSE, completes |-> 0, calls |-> 0,
             g |-> [x \in GtCallers |-> NoGtCall]]

\* a call starts: makeEndpoint(rst) and Redo(rst) go to g.complete(rst) when rst
\* is set and else to g.synack (makeEndpoint with complete = false, Redo with
\* true); StatefulTeardown goes to g.synack(true). sawEp and sawOk keep whether
\* an endpoint had been created, and whether the conn was stored, at that time.
gtCall(g, op, rst) ==
    /\ gt.g[g].pc = "idle" /\ gt.calls < MaxGtCalls
    /\ op = "StatefulTeardown" => ~rst
    /\ gt' = [gt EXCEPT !.calls = @ + 1,
                        !.g[g] = [op |-> op, rst |-> rst,
                                  pc |-> IF rst THEN "complete" ELSE "synack",
                                  complete |-> op # "makeEndpoint", rstres |-> rst,
                                  sawEp |-> gt.eps > 0, sawOk |-> gt.c,
                                  made |-> FALSE, open |-> FALSE]]
    /\ UNCHANGED gtRest

\* synack: `if g.ok() { return false, nil }`, before the defer is registered
gtSynack(g) ==
    /\ gt.g[g].pc = "synack"
    /\ gt' = IF ok(gt)
             THEN [gt EXCEPT !.g[g].pc = "ret", !.g[g].rstres = FALSE]
             ELSE [gt EXCEPT !.g[g].pc = "create"]
    /\ UNCHANGED gtRest

\* synack: g.req.CreateEndpoint(wq) gives an endpoint or an error
gtCreate(g, res) ==
    /\ gt.g[g].pc = "create"
    /\ gt' = IF res = "ok"
             THEN [gt EXCEPT !.eps = @ + 1, !.g[g].made = TRUE, !.g[g].pc = "store"]
             ELSE [gt EXCEPT !.g[g].rstres = TRUE,
                             !.g[g].pc = IF gt.g[g].complete THEN "complete" ELSE "ret"]
    /\ UNCHANGED gtRest

\* synack: g.ep.Store(ep); g.c.Store(gonet.NewTCPConn(wq, ep)); return false, nil
gtStore(g) ==
    /\ gt.g[g].pc = "store"
    /\ gt' = [gt EXCEPT !.ep = TRUE, !.c = TRUE, !.g[g].rstres = FALSE,
                        !.g[g].pc = IF gt.g[g].complete THEN "complete" ELSE "ret"]
    /\ UNCHANGED gtRest

\* g.complete(rst): g.once.Do(func() { g.req.Complete(rst) })
gtComplete(g) ==
    /\ gt.g[g].pc = "complete"
    /\ gt' = IF gt.once
             THEN [gt EXCEPT !.g[g].pc = "ret"]
             ELSE [gt EXCEPT !.once = TRUE, !.completes = @ + 1, !.g[g].pc = "ret"]
    /\ UNCHANGED gtRest

\* the call returns: open is !rst (StatefulTeardown closes the conn and
\* returns true, always)
gtReturn(g) ==
    /\ gt.g[g].pc = "ret"
    /\ gt' = [gt EXCEPT !.g[g].pc = "idle",
                        !.g[g].open = gt.g[g].op # "StatefulTeardown" /\ ~gt.g[g].rstres]
    /\ UNCHANGED gtRest

GtNext ==
    \/ \E g \in GtCallers : \E op \in {"makeEndpoint", "Redo", "StatefulTeardown"} :
       \E rst \in BOOLEAN : gtCall(g, op, rst)
    \/ \E g \in GtCallers : gtSynack(g)
    \/ \E g \in GtCallers : \E res \in {"ok", "err"} : gtCreate(g, res)
    \/ \E g \in GtCallers : gtStore(g)
    \/ \E g \in GtCallers : gtComplete(g)
    \/ \E g \in GtCallers : gtReturn(g)

SpecGTcp == GtSpecInit /\ [][GtNext]_vars

\* the call of g is makeEndpoint(false) or Redo(false)
GtAsksOpen(g) == gt.g[g].op \in {"makeEndpoint", "Redo"} /\ ~gt.g[g].rst

\* C40 as stated: the request is completed at most once whatever the calls and
\* their interleaving; a makeEndpoint(false) or Redo(false) that starts once an
\* endpoint exists creates no second endpoint and reports the connection open.
GtCompletesOnceOneEndpoint ==
    /\ gt.completes <= 1
    /\ \A g \in GtCallers :
          GtAsksOpen(g) /\ gt.g[g].sawEp =>
              /\ ~gt.g[g].made
              /\ gt.g[g].pc = "idle" => gt.g[g].open

\* C40: the request is completed at most once whatever the calls and their
\* interleaving; a makeEndpoint(false) or Redo(false) that starts once the
\* endpoint's conn has been stored (ok() is true) creates no second endpoint
\* and reports the connection open. A call that starts after CreateEndpoint
\* returned to another caller but before that caller stored the conn creates an
\* endpoint of its own.
GtCompletesOnceOneEndpointStored ==
    /\ gt.completes <= 1
    /\ \A g \in GtCallers :
          GtAsksOpen(g) /\ gt.g[g].sawOk =>
              /\ ~gt.g[g].made
              /\ gt.g[g].pc = "idle" => gt.g[g].open

\* C40 witness: Redo(false), started with the conn stored, has returned open
\* without creating an endpoint, the request having been completed once
GtRedoFoundOpen ==
    \E g \in GtCallers :
        /\ gt.g[g].op = "Redo" /\ ~gt.g[g].rst /\ gt.g[g].sawOk
        /\ gt.g[g].pc = "idle" /\ gt.g[g].open /\ ~gt.g[g].made
        /\ gt.eps = 1 /\ gt.completes = 1

====
